---- MODULE Spec2Model ----
(***************************************************************************)
(* Model of cerfaparse: the geometry-to-field inference pipeline.          *)
(*                                                                         *)
(* Lengths are integers counting hundredths of a unit (8.92 is 892), so    *)
(* the thresholds of the source, given there in units, are compared after  *)
(* multiplication by 100.  A running average is kept as an exact fraction  *)
(* (num / den); floating-point rounding is not modelled.                   *)
(***************************************************************************)
EXTENDS Integers, Sequences, FiniteSets, TLC

VARIABLES
    stage,        \* position of the component under analysis
    boxes,        \* group-rows: the SvgBox list given to groupBoxesIntoFields
    rows,         \* group-rows: the rows built by groupByY
    fieldGroups,  \* group-rows: the FieldGroup list returned
    args,         \* the arguments of a call of a pure function
    result,       \* the value that call returned
    nameSet,      \* naming: the used-names set
    produced,     \* naming: the base names generated and the keys chosen
    pageCount,    \* convert: the number of pages
    curPage,      \* convert: the page of the loop
    labelsByPage, \* convert: the labels of every page
    svgResult,    \* convert: the ExtractResult of the page
    allFields     \* convert: the Field list

groupVars == <<boxes, rows, fieldGroups>>

callVars == <<args, result>>

nameVars == <<nameSet, produced>>

convertVars == <<pageCount, curPage, labelsByPage, svgResult, allFields>>

vars == <<stage, groupVars, callVars, nameVars, convertVars>>

\* the values of the variables a component does not use
GroupIdle == boxes = <<>> /\ rows = <<>> /\ fieldGroups = <<>>

CallIdle == args = <<>> /\ result = <<>>

NameIdle == nameSet = {} /\ produced = <<>>

ConvertIdle ==
    /\ pageCount = 0
    /\ curPage = 0
    /\ labelsByPage = <<>>
    /\ svgResult = <<>>
    /\ allFields = <<>>

(***************************************************************************)
(* Bounds                                                                  *)
(***************************************************************************)
MaxBoxes == 3

MaxRuns == 3

MaxNamed == 4

MaxPages == 2

MaxLabels == 3

MaxMatchLabels == 2

MaxTokens == 4

MaxPaths == 3

MaxWords == 3

MaxSearchLabels == 2

MaxKindPaths == 2

MaxUses == 2

MaxNestedPaths == 1

MaxLineWords == 3

MaxOwnedBoxes == 2

MaxOwnedLabels == 2

(***************************************************************************)
(* Generic helpers                                                         *)
(***************************************************************************)
Abs(n) == IF n < 0 THEN 0 - n ELSE n

Min2(a, b) == IF a < b THEN a ELSE b

Max2(a, b) == IF a > b THEN a ELSE b

\* hundredths of a unit
U(n) == n * 100

Range(s) == {s[i] : i \in 1..Len(s)}

RECURSIVE Flatten(_)
Flatten(ss) == IF ss = <<>> THEN <<>> ELSE Head(ss) \o Flatten(Tail(ss))

InsertAt(s, k, e) == SubSeq(s, 1, k - 1) \o <<e>> \o SubSeq(s, k, Len(s))

(***************************************************************************)
(* group-rows.ts                                                           *)
(***************************************************************************)
Y_TOLERANCE_3 == 2 + 1

Y_TOLERANCE == 2

FIELD_GAP_THRESHOLD_15 == 10 + 5

FIELD_GAP_THRESHOLD == 10

BoxType == {"cell", "checkbox"}

\* the comparator of the final sort of groupBoxesIntoFields
FieldOrder(a, b) ==
    LET yDiff == a.boxes[1].y - b.boxes[1].y
    IN  IF Abs(yDiff) > U(Y_TOLERANCE) THEN yDiff
        ELSE a.boxes[1].x - b.boxes[1].x

\* the comparator of the first sort of assembleLabels (extract-labels.ts),
\* with its LINE_Y_TOLERANCE of 2
WordOrder(a, b) ==
    LET yDiff == a.yMin - b.yMin
    IN  IF Abs(yDiff) > U(2) THEN yDiff ELSE a.xMin - b.xMin

\* the comparators handed to Array.prototype.sort
Compare(cmp, a, b) ==
    CASE cmp = "y" -> a.y - b.y
      [] cmp = "x" -> a.x - b.x
      [] cmp = "field" -> FieldOrder(a, b)
      [] cmp = "word" -> WordOrder(a, b)
      [] cmp = "xMin" -> a.xMin - b.xMin

\* leftmost position (0-based) at which the binary search of the runtime's
\* insertion sort puts pivot into the sorted prefix
RECURSIVE SortSearch(_, _, _, _, _)
SortSearch(cmp, sorted, pivot, left, right) ==
    IF left >= right THEN left
    ELSE LET mid == left + ((right - left) \div 2)
         IN  IF Compare(cmp, pivot, sorted[mid + 1]) < 0
             THEN SortSearch(cmp, sorted, pivot, left, mid)
             ELSE SortSearch(cmp, sorted, pivot, mid + 1, right)

\* the insertions of the binary insertion sort, from the i-th element on
RECURSIVE ArraySortFrom(_, _, _, _)
ArraySortFrom(cmp, s, sorted, i) ==
    IF i > Len(s) THEN sorted
    ELSE ArraySortFrom(cmp, s,
             InsertAt(sorted, SortSearch(cmp, sorted, s[i], 0, Len(sorted)) + 1, s[i]),
             i + 1)

\* the length of the run the array starts with: ascending, or strictly
\* descending when descending is TRUE
RECURSIVE RunLength(_, _, _, _)
RunLength(cmp, s, descending, k) ==
    IF k > Len(s) THEN k - 1
    ELSE LET order == Compare(cmp, s[k], s[k - 1])
         IN  IF (descending /\ order >= 0) \/ (~descending /\ order < 0)
             THEN k - 1
             ELSE RunLength(cmp, s, descending, k + 1)

Reverse(s) == [i \in 1..Len(s) |-> s[Len(s) + 1 - i]]

\* Array.prototype.sort of the runtime (V8) for arrays shorter than 64
\* elements: the run the array starts with is taken as it is, reversed when
\* it descends, and the other elements are put in by binary insertion.  With
\* a consistent comparator this is the stable sort.
ArraySort(s, cmp) ==
    IF Len(s) < 2 THEN s
    ELSE LET descending == Compare(cmp, s[2], s[1]) < 0
             n == RunLength(cmp, s, descending, 3)
             run == IF descending THEN Reverse(SubSeq(s, 1, n)) ELSE SubSeq(s, 1, n)
         IN  ArraySortFrom(cmp, s, run, n + 1)

\* the row's y is the running average of its boxes' y, kept as a fraction
RowY(bs) ==
    LET RECURSIVE Sum(_)
        Sum(q) == IF q = <<>> THEN 0 ELSE Head(q).y + Sum(Tail(q))
    IN  [num |-> Sum(bs), den |-> Len(bs)]

RowAcceptsAnyType(r, box) ==
    Abs(r.y.num - r.y.den * box.y) <= U(Y_TOLERANCE) * r.y.den

\* Math.abs(r.y - box.y) <= Y_TOLERANCE && r.type === box.type
RowAccepts(r, box) ==
    /\ Abs(r.y.num - r.y.den * box.y) <= U(Y_TOLERANCE) * r.y.den
    /\ r.type = box.type

groupByY(bs, page) ==
    LET sorted == ArraySort(bs, "y")
        RECURSIVE Loop(_, _)
        Loop(rs, i) ==
            IF i > Len(sorted) THEN rs
            ELSE LET box == sorted[i]
                     hits == {k \in 1..Len(rs) : RowAccepts(rs[k], box)}
                 IN  IF hits # {}
                     THEN LET k == CHOOSE m \in hits : \A n \in hits : m <= n
                              nb == Append(rs[k].boxes, box)
                          IN  Loop([rs EXCEPT ![k] = [@ EXCEPT !.boxes = nb,
                                                               !.y = RowY(nb)]],
                                   i + 1)
                     ELSE Loop(Append(rs, [boxes |-> <<box>>,
                                           y |-> [num |-> box.y, den |-> 1],
                                           type |-> box.type,
                                           page |-> page]),
                               i + 1)
    IN  Loop(<<>>, 1)

splitByLeftEdge(sortedBoxes, row) ==
    LET RECURSIVE Loop(_, _)
        Loop(groups, i) ==
            IF i > Len(sortedBoxes) THEN groups
            ELSE LET prev == sortedBoxes[i - 1]
                     curr == sortedBoxes[i]
                     gap == curr.x - prev.x
                 IN  IF gap > U(FIELD_GAP_THRESHOLD)
                     THEN Loop(Append(groups, <<curr>>), i + 1)
                     ELSE Loop([groups EXCEPT ![Len(groups)] = Append(@, curr)],
                               i + 1)
        groups == IF sortedBoxes = <<>> THEN <<>>
                  ELSE Loop(<<<<sortedBoxes[1]>>>>, 2)
    IN  [g \in 1..Len(groups) |->
            [boxes |-> groups[g],
             row |-> [row EXCEPT !.boxes = groups[g]],
             boxCount |-> Len(groups[g])]]

\* splitByXGap that starts with an empty group instead of the first box
splitByXGapWithoutFirst(sortedBoxes, row) ==
    LET RECURSIVE Loop(_, _)
        Loop(groups, i) ==
            IF i > Len(sortedBoxes) THEN groups
            ELSE LET prev == sortedBoxes[i - 1]
                     curr == sortedBoxes[i]
                     gap == curr.x - (prev.x + prev.width)
                 IN  IF gap > U(FIELD_GAP_THRESHOLD)
                     THEN Loop(Append(groups, <<curr>>), i + 1)
                     ELSE Loop([groups EXCEPT ![Len(groups)] = Append(@, curr)],
                               i + 1)
        groups == IF sortedBoxes = <<>> THEN <<>>
                  ELSE Loop(<<<<>>>>, 2)
    IN  [g \in 1..Len(groups) |->
            [boxes |-> groups[g],
             row |-> [row EXCEPT !.boxes = groups[g]],
             boxCount |-> Len(groups[g])]]

splitByXGap(sortedBoxes, row) ==
    LET RECURSIVE Loop(_, _)
        Loop(groups, i) ==
            IF i > Len(sortedBoxes) THEN groups
            ELSE LET prev == sortedBoxes[i - 1]
                     curr == sortedBoxes[i]
                     gap == curr.x - (prev.x + prev.width)
                 IN  IF gap > U(FIELD_GAP_THRESHOLD)
                     THEN Loop(Append(groups, <<curr>>), i + 1)
                     ELSE Loop([groups EXCEPT ![Len(groups)] = Append(@, curr)],
                               i + 1)
        groups == IF sortedBoxes = <<>> THEN <<>>
                  ELSE Loop(<<<<sortedBoxes[1]>>>>, 2)
    IN  [g \in 1..Len(groups) |->
            [boxes |-> groups[g],
             row |-> [row EXCEPT !.boxes = groups[g]],
             boxCount |-> Len(groups[g])]]

groupBoxesIntoFields(bs, page) ==
    LET rs == groupByY(bs, page)
        splits == [k \in 1..Len(rs) |->
                      splitByXGap(ArraySort(rs[k].boxes, "x"),
                                  rs[k])]
    IN  ArraySort(Flatten(splits), "field")

(***************************************************************************)
(* transform.ts                                                            *)
(***************************************************************************)
svgPointToViewport(svgX, svgY, matrix) ==
    [x |-> matrix.a * svgX + matrix.c * svgY + matrix.e,
     y |-> matrix.b * svgX + matrix.d * svgY + matrix.f]

svgBoxToPdfRect(box, matrix, pageHeight) ==
    LET corner1 == svgPointToViewport(box.x, box.y, matrix)
        corner2 == svgPointToViewport(box.x + box.width, box.y + box.height, matrix)
        vpLeft == Min2(corner1.x, corner2.x)
        vpTop == Min2(corner1.y, corner2.y)
        vpRight == Max2(corner1.x, corner2.x)
        vpBottom == Max2(corner1.y, corner2.y)
    IN  [x |-> vpLeft,
         y |-> pageHeight - vpBottom,
         width |-> vpRight - vpLeft,
         height |-> vpBottom - vpTop]

(***************************************************************************)
(* Text.  A string is a sequence of characters; a character is a one-letter*)
(* string, except for the characters outside ASCII, which are named:       *)
(* "ELLIPSIS" is U+2026, "e_acute" is U+00E9, "ACUTE" is the combining     *)
(* acute accent U+0301, "DEGREE" is U+00B0, "oe_lig" is the letter U+0153, *)
(* which has no decomposition.                                             *)
(***************************************************************************)
Lowers ==
    <<"a", "b", "c", "d", "e", "f", "g", "h", "i", "j", "k", "l", "m",
      "n", "o", "p", "q", "r", "s", "t", "u", "v", "w", "x", "y", "z">>

Uppers ==
    <<"A", "B", "C", "D", "E", "F", "G", "H", "I", "J", "K", "L", "M",
      "N", "O", "P", "Q", "R", "S", "T", "U", "V", "W", "X", "Y", "Z">>

Digits == <<"0", "1", "2", "3", "4", "5", "6", "7", "8", "9">>

\* the class \s of a regular expression
Whitespace == {" ", "\t"}

\* the class [a-zA-Z0-9]
AsciiAlnum == Range(Lowers) \cup Range(Uppers) \cup Range(Digits)

toLowerCase(c) ==
    IF c \in Range(Uppers)
    THEN Lowers[CHOOSE i \in 1..Len(Uppers) : Uppers[i] = c]
    ELSE c

toUpperCase(c) ==
    IF c \in Range(Lowers)
    THEN Uppers[CHOOSE i \in 1..Len(Lowers) : Lowers[i] = c]
    ELSE c

\* a number in a template literal: its decimal digits
RECURSIVE Decimal(_)
Decimal(n) ==
    IF n < 10 THEN <<Digits[n + 1]>>
    ELSE Decimal(n \div 10) \o <<Digits[(n % 10) + 1]>>

RECURSIVE SelectChars(_, _)
SelectChars(str, keep) ==
    IF str = <<>> THEN <<>>
    ELSE (IF Head(str) \in keep THEN <<Head(str)>> ELSE <<>>)
             \o SelectChars(Tail(str), keep)

RECURSIVE DropChars(_, _)
DropChars(str, drop) ==
    IF str = <<>> THEN <<>>
    ELSE (IF Head(str) \in drop THEN <<>> ELSE <<Head(str)>>)
             \o DropChars(Tail(str), drop)

\* String.prototype.trim
RECURSIVE TrimStart(_)
TrimStart(str) ==
    IF str # <<>> /\ Head(str) \in Whitespace THEN TrimStart(Tail(str)) ELSE str

RECURSIVE TrimEnd(_)
TrimEnd(str) ==
    IF str # <<>> /\ str[Len(str)] \in Whitespace
    THEN TrimEnd(SubSeq(str, 1, Len(str) - 1))
    ELSE str

Trim(str) == TrimEnd(TrimStart(str))

\* String.prototype.normalize('NFD'): canonical decomposition
RECURSIVE NormalizeNFD(_)
NormalizeNFD(str) ==
    IF str = <<>> THEN <<>>
    ELSE (IF Head(str) = "e_acute" THEN <<"e", "ACUTE">> ELSE <<Head(str)>>)
             \o NormalizeNFD(Tail(str))

\* the class of combining marks, U+0300 to U+036F
CombiningMarks == {"ACUTE"}

\* split(/\s+/) of a trimmed string: its maximal runs without whitespace
\* (the single empty token of an empty string joins to the same result as no
\* token)
RECURSIVE SplitWords(_, _, _)
SplitWords(str, current, words) ==
    IF str = <<>>
    THEN (IF current = <<>> THEN words ELSE Append(words, current))
    ELSE IF Head(str) \in Whitespace
         THEN SplitWords(Tail(str), <<>>,
                         IF current = <<>> THEN words ELSE Append(words, current))
         ELSE SplitWords(Tail(str), Append(current, Head(str)), words)

(***************************************************************************)
(* map-labels.ts: field names                                              *)
(***************************************************************************)
\* labelText.replace(/\s*:\s*$/, ''): when the text ends with a colon and
\* optional whitespace, that colon goes, with the whitespace around it
StripTrailingColon(str) ==
    LET t == TrimEnd(str)
    IN  IF t # <<>> /\ t[Len(t)] = ":"
        THEN TrimEnd(SubSeq(t, 1, Len(t) - 1))
        ELSE str

CamelWordLower(word, i) == [k \in 1..Len(word) |-> toLowerCase(word[k])]

\* i === 0 ? word.toLowerCase()
\*         : word.charAt(0).toUpperCase() + word.slice(1).toLowerCase()
CamelWord(word, i) ==
    IF i = 1 THEN [k \in 1..Len(word) |-> toLowerCase(word[k])]
    ELSE [k \in 1..Len(word) |->
             IF k = 1 THEN toUpperCase(word[k]) ELSE toLowerCase(word[k])]

CamelCase(cleaned) ==
    LET stripped == Trim(SelectChars(DropChars(NormalizeNFD(cleaned), CombiningMarks),
                                     AsciiAlnum \cup Whitespace))
        words == SplitWords(stripped, <<>>, <<>>)
    IN  Flatten([i \in 1..Len(words) |-> CamelWord(words[i], i)])

PagePrefix(page) == <<"p">> \o Decimal(page) \o <<"_">>

generateFieldName(labelText, type, page) ==
    IF labelText = <<>>
    THEN PagePrefix(page) \o <<"f", "i", "e", "l", "d">>
    ELSE LET camel == CamelCase(Trim(StripTrailingColon(labelText)))
         IN  IF camel = <<>>
             THEN PagePrefix(page) \o <<"f", "i", "e", "l", "d">>
             ELSE PagePrefix(page) \o camel

Suffixed(baseName, counter) == baseName \o <<"_">> \o Decimal(counter)

RECURSIVE FirstFreeCounter(_, _, _)
FirstFreeCounter(baseName, used, counter) ==
    IF Suffixed(baseName, counter) \in used
    THEN FirstFreeCounter(baseName, used, counter + 1)
    ELSE counter

deduplicateNameOnce(baseName, used) ==
    IF baseName \notin used THEN baseName ELSE Suffixed(baseName, 2)

deduplicateName(baseName, used) ==
    IF baseName \notin used THEN baseName
    ELSE Suffixed(baseName, FirstFreeCounter(baseName, used, 2))

(***************************************************************************)
(* map-labels.ts: matching labels to field groups.  A Label | null is a    *)
(* sequence of at most one label; an optional property of a Field is a     *)
(* sequence of at most one value.                                          *)
(***************************************************************************)
MAP_LABEL_Y_MAX_DISTANCE_30 == 25 + 5

MAP_LABEL_Y_MAX_DISTANCE == 25

toFieldTypeInput(boxType) == "input"

toFieldType(boxType) == IF boxType = "cell" THEN "input" ELSE "checkbox"

labelToPdfCoords(label, pageHeight) ==
    [xMin |-> label.xMin,
     xMax |-> label.xMax,
     yBottom |-> pageHeight - label.yMax,
     yTop |-> pageHeight - label.yMin]

RECURSIVE MinOf(_)
MinOf(ns) ==
    IF Len(ns) = 1 THEN ns[1] ELSE Min2(Head(ns), MinOf(Tail(ns)))

RECURSIVE MaxOf(_)
MaxOf(ns) ==
    IF Len(ns) = 1 THEN ns[1] ELSE Max2(Head(ns), MaxOf(Tail(ns)))

computeGroupPdfRect(group, transform, pageHeight) ==
    LET rects == [i \in 1..Len(group.boxes) |->
                     svgBoxToPdfRect(group.boxes[i], transform, pageHeight)]
        x == MinOf([i \in 1..Len(rects) |-> rects[i].x])
        y == MinOf([i \in 1..Len(rects) |-> rects[i].y])
        maxX == MaxOf([i \in 1..Len(rects) |-> rects[i].x + rects[i].width])
        maxY == MaxOf([i \in 1..Len(rects) |-> rects[i].y + rects[i].height])
    IN  [x |-> x, y |-> y, width |-> maxX - x, height |-> maxY - y]

\* the state of a best-score search: no label yet (score Infinity), or the
\* best label and its score
NoBest == [found |-> FALSE, score |-> 0, label |-> <<>>]

ImprovesOrTies(score, best) == ~best.found \/ score <= best.score

Improves(score, best) == ~best.found \/ score < best.score

RECURSIVE BestLabelFrom(_, _, _, _, _)
BestLabelFrom(fieldRect, labels, pageHeight, i, best) ==
    IF i > Len(labels) THEN best.label
    ELSE LET fieldTop == fieldRect.y + fieldRect.height
             fieldLeft == fieldRect.x
             fieldRight == fieldRect.x + fieldRect.width
             pdfLabel == labelToPdfCoords(labels[i], pageHeight)
             yDistance == pdfLabel.yBottom - fieldTop
             hasOverlap == pdfLabel.xMin < fieldRight /\ pdfLabel.xMax > fieldLeft
             isLeftOf == /\ pdfLabel.xMax <= fieldLeft
                         /\ fieldLeft - pdfLabel.xMax < U(50)
             score == yDistance + (IF hasOverlap THEN 0 ELSE U(20))
         IN  IF yDistance < 0 \/ yDistance > U(MAP_LABEL_Y_MAX_DISTANCE)
             THEN BestLabelFrom(fieldRect, labels, pageHeight, i + 1, best)
             ELSE IF ~hasOverlap /\ ~isLeftOf
             THEN BestLabelFrom(fieldRect, labels, pageHeight, i + 1, best)
             ELSE IF Improves(score, best)
             THEN BestLabelFrom(fieldRect, labels, pageHeight, i + 1,
                      [found |-> TRUE, score |-> score, label |-> <<labels[i]>>])
             ELSE BestLabelFrom(fieldRect, labels, pageHeight, i + 1, best)

findBestLabel(fieldRect, labels, pageHeight) ==
    BestLabelFrom(fieldRect, labels, pageHeight, 1, NoBest)

\* the loop of mapLabelsToFields from the i-th field group on
RECURSIVE MapGroupsFrom(_, _, _, _, _, _, _, _)
MapGroupsFrom(groups, labels, transform, page, pageHeight, i, usedNames, fields) ==
    IF i > Len(groups) THEN fields
    ELSE LET group == groups[i]
             pdfRect == computeGroupPdfRect(group, transform, pageHeight)
             bestLabel == findBestLabel(pdfRect, labels, pageHeight)
             labelText == IF bestLabel = <<>> THEN <<>> ELSE bestLabel[1].text
             baseName == generateFieldName(labelText, group.row.type, page)
             name == deduplicateName(baseName, usedNames)
             field == [key |-> name,
                       type |-> toFieldType(group.row.type),
                       props |-> [label |-> labelText,
                                  page |-> page,
                                  pdfRect |-> pdfRect,
                                  maxLength |-> IF group.row.type = "cell"
                                                THEN <<group.boxCount>> ELSE <<>>,
                                  multiline |-> <<>>]]
         IN  MapGroupsFrom(groups, labels, transform, page, pageHeight, i + 1,
                           usedNames \cup {name}, Append(fields, field))

\* mapLabelsToFields declares five parameters and starts from a used-names
\* set of its own: const usedNames = new Set<string>()
mapLabelsToFields(groups, labels, transform, page, pageHeight) ==
    MapGroupsFrom(groups, labels, transform, page, pageHeight, 1, {}, <<>>)

(***************************************************************************)
(* extract-dot-lines.ts.  Label indices count from 1.                      *)
(***************************************************************************)
MIN_DOT_COUNT_9 == 10 - 1

MIN_DOT_COUNT == 10

DOT_GROUP_Y_GAP_30 == 20 + 10

DOT_GROUP_Y_GAP == 20

LABEL_Y_MAX_DISTANCE == 30

\* /^[.\s\u2026]+$/.test(text)
OnlyDotsAndSpace(text) ==
    /\ text # <<>>
    /\ \A i \in 1..Len(text) : text[i] \in {".", "ELLIPSIS"} \cup Whitespace

\* (text.match(/\./g) ?? []).length
DotCount(text) == Len(SelectChars(text, {"."}))

isDotLine(text) ==
    IF ~OnlyDotsAndSpace(text) THEN FALSE
    ELSE DotCount(text) >= MIN_DOT_COUNT

DotIndicesAnyDots(labels) ==
    LET RECURSIVE From(_)
        From(i) == IF i > Len(labels) THEN <<>>
                   ELSE (IF OnlyDotsAndSpace(labels[i].text) THEN <<i>> ELSE <<>>)
                            \o From(i + 1)
    IN  From(1)

\* step 1: the indices of the dot-line labels, ascending
DotIndices(labels) ==
    LET RECURSIVE From(_)
        From(i) == IF i > Len(labels) THEN <<>>
                   ELSE (IF isDotLine(labels[i].text) THEN <<i>> ELSE <<>>)
                            \o From(i + 1)
    IN  From(1)

\* step 2: consecutive dot lines grouped by Y-proximity
RECURSIVE DotGroupsFrom(_, _, _, _)
DotGroupsFrom(labels, dotIndices, i, groups) ==
    IF i > Len(dotIndices) THEN groups
    ELSE LET prevLabel == labels[dotIndices[i - 1]]
             currLabel == labels[dotIndices[i]]
         IN  IF Abs(currLabel.yMin - prevLabel.yMin) <= U(DOT_GROUP_Y_GAP)
             THEN DotGroupsFrom(labels, dotIndices, i + 1,
                      [groups EXCEPT ![Len(groups)] = Append(@, dotIndices[i])])
             ELSE DotGroupsFrom(labels, dotIndices, i + 1,
                      Append(groups, <<dotIndices[i]>>))

RECURSIVE TextLabelAboveFrom(_, _, _, _, _, _, _)
TextLabelAboveFrom(labels, groupTopY, groupXMin, groupXMax, consumed, i, best) ==
    IF i > Len(labels) THEN best.label
    ELSE LET lbl == labels[i]
             yDistance == groupTopY - lbl.yMax
             hasOverlap == lbl.xMin < groupXMax /\ lbl.xMax > groupXMin
             isLeftOf == lbl.xMax <= groupXMin /\ groupXMin - lbl.xMax < U(50)
             score == yDistance + (IF hasOverlap THEN 0 ELSE U(20))
         IN  IF i \in consumed
             THEN TextLabelAboveFrom(labels, groupTopY, groupXMin, groupXMax,
                                     consumed, i + 1, best)
             ELSE IF yDistance < 0 \/ yDistance > U(LABEL_Y_MAX_DISTANCE)
             THEN TextLabelAboveFrom(labels, groupTopY, groupXMin, groupXMax,
                                     consumed, i + 1, best)
             ELSE IF ~hasOverlap /\ ~isLeftOf
             THEN TextLabelAboveFrom(labels, groupTopY, groupXMin, groupXMax,
                                     consumed, i + 1, best)
             ELSE IF Improves(score, best)
             THEN TextLabelAboveFrom(labels, groupTopY, groupXMin, groupXMax,
                      consumed, i + 1,
                      [found |-> TRUE, score |-> score, label |-> <<lbl>>])
             ELSE TextLabelAboveFrom(labels, groupTopY, groupXMin, groupXMax,
                                     consumed, i + 1, best)

findTextLabelAbove(labels, groupTopY, groupXMin, groupXMax, consumed) ==
    TextLabelAboveFrom(labels, groupTopY, groupXMin, groupXMax, consumed, 1, NoBest)

\* step 3: the loop over the groups from the g-th on; acc holds the fields,
\* the consumed indices and the used-names set, which the loop extends
RECURSIVE DotFieldsFrom(_, _, _, _, _, _)
DotFieldsFrom(labels, page, pageHeight, groups, g, acc) ==
    IF g > Len(groups) THEN acc
    ELSE LET group == groups[g]
             consumed == acc.consumedLabelIndices \cup Range(group)
             xMin == MinOf([k \in 1..Len(group) |-> labels[group[k]].xMin])
             yMin == MinOf([k \in 1..Len(group) |-> labels[group[k]].yMin])
             xMax == MaxOf([k \in 1..Len(group) |-> labels[group[k]].xMax])
             yMax == MaxOf([k \in 1..Len(group) |-> labels[group[k]].yMax])
             pdfRect == [x |-> xMin,
                         y |-> pageHeight - yMax,
                         width |-> xMax - xMin,
                         height |-> yMax - yMin]
             bestLabel == findTextLabelAbove(labels, yMin, xMin, xMax, consumed)
             labelText == IF bestLabel = <<>> THEN <<>> ELSE bestLabel[1].text
             isMultiline == Len(group) > 1
             baseName == generateFieldName(labelText, "cell", page)
             name == deduplicateName(baseName, acc.names)
             field == [key |-> name,
                       type |-> "input",
                       props |-> [label |-> labelText,
                                  page |-> page,
                                  pdfRect |-> pdfRect,
                                  maxLength |-> <<>>,
                                  multiline |-> IF isMultiline THEN <<TRUE>>
                                                ELSE <<>>]]
         IN  DotFieldsFrom(labels, page, pageHeight, groups, g + 1,
                 [fields |-> Append(acc.fields, field),
                  consumedLabelIndices |-> consumed,
                  names |-> acc.names \cup {name}])

\* returns the DotLineResult and, as names, the caller's used-names set as
\* the call leaves it
extractDotLineFields(labels, page, pageHeight, usedNames) ==
    LET dotIndices == DotIndices(labels)
        start == [fields |-> <<>>, consumedLabelIndices |-> {}, names |-> usedNames]
    IN  IF dotIndices = <<>> THEN start
        ELSE DotFieldsFrom(labels, page, pageHeight,
                 DotGroupsFrom(labels, dotIndices, 2, <<<<dotIndices[1]>>>>),
                 1, start)

(***************************************************************************)
(* Specification of the Row/Field Grouper on its own                       *)
(***************************************************************************)
\* 21.00 -> 29.92 touch (gap 0); 21.00 -> 39.92 is a gap of exactly 10;
\* 29.92 -> 43.81 is the date-separator pitch 13.89 (gap 4.97);
\* 43.81 -> 66.62 is a gap of 13.89
BoxXs == {2100, 2992, 3992, 4381, 6662}

BoxYs == {10000, 10200, 10300}

GroupBoxSet ==
    [x : BoxXs, y : BoxYs, width : {892}, height : {1091}, type : BoxType]

GroupInit ==
    /\ stage = "input"
    /\ boxes = <<>>
    /\ rows = <<>>
    /\ fieldGroups = <<>>
    /\ CallIdle
    /\ NameIdle
    /\ ConvertIdle

\* the caller builds the box list
AddBox ==
    /\ stage = "input"
    /\ Len(boxes) < MaxBoxes
    /\ \E b \in GroupBoxSet : boxes' = Append(boxes, b)
    /\ UNCHANGED <<stage, rows, fieldGroups, callVars, nameVars, convertVars>>

\* groupBoxesIntoFields(boxes, 1)
GroupBoxes ==
    /\ stage = "input"
    /\ stage' = "grouped"
    /\ rows' = groupByY(boxes, 1)
    /\ fieldGroups' = groupBoxesIntoFields(boxes, 1)
    /\ UNCHANGED <<boxes, callVars, nameVars, convertVars>>

GroupNext == AddBox \/ GroupBoxes

SpecGroup == GroupInit /\ [][GroupNext]_vars

(***************************************************************************)
(* Properties of the Row/Field Grouper                                     *)
(***************************************************************************)
\* leading edge of the right box minus trailing edge of the left box
XGap(p, q) ==
    IF p.x <= q.x THEN q.x - (p.x + p.width) ELSE p.x - (q.x + q.width)

\* a row's boxes in the order in which splitByXGap walks them
RowSorted(r) == ArraySort(r.boxes, "x")

\* p is immediately followed by q inside one returned field group
AdjacentInGroup(p, q) ==
    \E k \in 1..Len(fieldGroups) :
        \E j \in 1..(Len(fieldGroups[k].boxes) - 1) :
            /\ fieldGroups[k].boxes[j] = p
            /\ fieldGroups[k].boxes[j + 1] = q

\* p ends one returned field group and q starts another one of the same row
SplitBetween(p, q) ==
    \E k1, k2 \in 1..Len(fieldGroups) :
        /\ k1 # k2
        /\ fieldGroups[k1].row.y = fieldGroups[k2].row.y
        /\ fieldGroups[k1].row.type = fieldGroups[k2].row.type
        /\ fieldGroups[k1].boxes[Len(fieldGroups[k1].boxes)] = p
        /\ fieldGroups[k2].boxes[1] = q

\* C4: no field group returned by groupBoxesIntoFields holds both a cell and
\* a checkbox, even when the two have the same Y.
C4_NoMixedKindGroup ==
    stage = "grouped" =>
        \A k \in 1..Len(fieldGroups) :
            \A i, j \in 1..Len(fieldGroups[k].boxes) :
                fieldGroups[k].boxes[i].type = fieldGroups[k].boxes[j].type

C4_Witness ==
    /\ stage = "grouped"
    /\ \E i, j \in 1..Len(boxes) :
          /\ boxes[i].type = "cell"
          /\ boxes[j].type = "checkbox"
          /\ boxes[i].y = boxes[j].y
          /\ XGap(boxes[i], boxes[j]) <= U(FIELD_GAP_THRESHOLD)
    /\ Len(fieldGroups) >= 2

\* C5 as stated: any two boxes whose X gap exceeds the field-gap threshold
\* are never members of the same field group.
C5_Original ==
    stage = "grouped" =>
        \A k \in 1..Len(fieldGroups) :
            \A i, j \in 1..Len(fieldGroups[k].boxes) :
                XGap(fieldGroups[k].boxes[i], fieldGroups[k].boxes[j])
                    <= U(FIELD_GAP_THRESHOLD)

\* C5 amended: two boxes that are neighbours in the X order of a field group
\* never have an X gap above the field-gap threshold (boxes further apart may
\* share a group through the boxes between them).
C5_NeighbourGapWithinThreshold ==
    stage = "grouped" =>
        \A k \in 1..Len(fieldGroups) :
            \A j \in 1..(Len(fieldGroups[k].boxes) - 1) :
                LET p == fieldGroups[k].boxes[j]
                    q == fieldGroups[k].boxes[j + 1]
                IN  /\ p.x <= q.x
                    /\ q.x - (p.x + p.width) <= U(10)

C5_Witness ==
    /\ stage = "grouped"
    /\ \E k \in 1..Len(fieldGroups) :
          /\ Len(fieldGroups[k].boxes) = 3
          /\ XGap(fieldGroups[k].boxes[1], fieldGroups[k].boxes[3])
                > U(FIELD_GAP_THRESHOLD)

\* mean of the first n boxes' y is within the tolerance of y
WithinToleranceOfMean(bs, n, y) ==
    Abs(RowY(SubSeq(bs, 1, n)).num - n * y) <= U(2) * n

\* C6 as stated: any two boxes of the same field group have Y values that
\* differ by at most the row-Y tolerance.
C6_Original ==
    stage = "grouped" =>
        \A k \in 1..Len(fieldGroups) :
            \A i, j \in 1..Len(fieldGroups[k].boxes) :
                Abs(fieldGroups[k].boxes[i].y - fieldGroups[k].boxes[j].y)
                    <= U(2)

\* C6 amended: the boxes of a field group all belong to one row, and every
\* box of a row joined it with a Y within the row-Y tolerance (2 units) of the
\* average Y of the boxes already in the row, and within the tolerance of the
\* box that joined just before it.
C6_WithinToleranceOfRunningAverage ==
    stage = "grouped" =>
        /\ \A k \in 1..Len(fieldGroups) :
              \E r \in 1..Len(rows) :
                  Range(fieldGroups[k].boxes) \subseteq Range(rows[r].boxes)
        /\ \A r \in 1..Len(rows) :
              \A n \in 1..(Len(rows[r].boxes) - 1) :
                  /\ WithinToleranceOfMean(rows[r].boxes, n, rows[r].boxes[n + 1].y)
                  /\ rows[r].boxes[n + 1].y - rows[r].boxes[n].y \in 0..U(2)

C6_Witness ==
    /\ stage = "grouped"
    /\ \E k \in 1..Len(fieldGroups) :
          \E i, j \in 1..Len(fieldGroups[k].boxes) :
              fieldGroups[k].boxes[j].y - fieldGroups[k].boxes[i].y > U(2)

C8_CheckboxGroupIsSingle ==
    stage = "grouped" =>
        \A k \in 1..Len(fieldGroups) :
            fieldGroups[k].row.type = "checkbox" =>
                /\ fieldGroups[k].boxCount = 1
                /\ Len(fieldGroups[k].boxes) = 1

(***************************************************************************)
(* Specification of the Transform Engine on its own: one call of           *)
(* svgBoxToPdfRect on a box, a matrix and a page height                    *)
(***************************************************************************)
\* scales, mirrors, quarter turns, shears and singular matrices
MatrixSet ==
    [a : {-1, 0, 1, 2}, b : {-1, 0, 1}, c : {-1, 0, 1}, d : {-1, 0, 1, 2},
     e : {0, -1094}, f : {0, 57260}]

TransformBoxSet ==
    {[x |-> 10000, y |-> 20000, width |-> w, height |-> h, type |-> "cell"] :
        <<w, h>> \in {<<892, 1091>>, <<1000, 1000>>, <<1000, 2000>>}}

TransformInit ==
    /\ stage = "call"
    /\ args \in [box : TransformBoxSet, matrix : MatrixSet, pageHeight : {57260}]
    /\ result = <<>>
    /\ GroupIdle
    /\ NameIdle
    /\ ConvertIdle

\* svgBoxToPdfRect(box, matrix, pageHeight)
CallSvgBoxToPdfRect ==
    /\ stage = "call"
    /\ stage' = "returned"
    /\ result' = svgBoxToPdfRect(args.box, args.matrix, args.pageHeight)
    /\ UNCHANGED <<args, groupVars, nameVars, convertVars>>

TransformNext == CallSvgBoxToPdfRect

SpecTransform == TransformInit /\ [][TransformNext]_vars

Determinant(m) == m.a * m.d - m.b * m.c

\* C3: for every affine matrix with non-zero determinant, every page height
\* and every rectangle with width > 0 and height > 0, svgBoxToPdfRect returns
\* a PdfRect with width > 0 and height > 0.
C3_PositiveDimensions ==
    (/\ stage = "returned"
     /\ Determinant(args.matrix) # 0
     /\ args.box.width > 0
     /\ args.box.height > 0)
        => (result.width > 0 /\ result.height > 0)

(***************************************************************************)
(* Specification of isDotLine on its own: a text made of runs of one       *)
(* character, then one call                                                *)
(***************************************************************************)
RunChars == {".", "ELLIPSIS", " ", "a"}

RunLengths == {1, 2, 9, 10}

Run(c, n) == [i \in 1..n |-> c]

DotInit ==
    /\ stage = "input"
    /\ args = [text |-> <<>>, runs |-> 0]
    /\ result = <<>>
    /\ GroupIdle
    /\ NameIdle
    /\ ConvertIdle

AppendRun ==
    /\ stage = "input"
    /\ args.runs < MaxRuns
    /\ \E c \in RunChars, n \in RunLengths :
          args' = [text |-> args.text \o Run(c, n), runs |-> args.runs + 1]
    /\ UNCHANGED <<stage, result, groupVars, nameVars, convertVars>>

\* isDotLine(text)
CallIsDotLine ==
    /\ stage = "input"
    /\ stage' = "returned"
    /\ result' = isDotLine(args.text)
    /\ UNCHANGED <<args, groupVars, nameVars, convertVars>>

DotNext == AppendRun \/ CallIsDotLine

SpecDot == DotInit /\ [][DotNext]_vars

\* C10: isDotLine(text) is true if and only if every character of text is a
\* period, the horizontal ellipsis or whitespace and text holds at least 10
\* literal periods; so it is false for the empty string, for fewer than 10
\* periods and for text that mixes other characters with dots.
C10_DotLineIff ==
    stage = "returned" =>
        /\ result <=>
              /\ \A i \in 1..Len(args.text) :
                    args.text[i] \in {".", "ELLIPSIS", " ", "\t"}
              /\ Cardinality({i \in 1..Len(args.text) : args.text[i] = "."}) >= 10
        /\ args.text = <<>> => ~result
        /\ (\E i \in 1..Len(args.text) : args.text[i] = "a") => ~result

C10_Witness ==
    /\ stage = "returned"
    /\ result
    /\ Cardinality({i \in 1..Len(args.text) : args.text[i] = "."}) = 10
    /\ \E i \in 1..Len(args.text) : args.text[i] = "ELLIPSIS"
    /\ \E i \in 1..Len(args.text) : args.text[i] = " "

(***************************************************************************)
(* Specification of the naming of fields over one used-names set: the      *)
(* three naming statements of the loop of mapLabelsToFields, which starts  *)
(* from an empty set                                                       *)
(***************************************************************************)
NameTexts ==
    {<<>>,
     <<"N", "o", "m", " ", ":">>,
     <<"n", "o", "m">>,
     <<"N", "O", "M", " ", "2">>,
     <<"n", "o", "m", "_", "2">>,
     <<":">>}

NameInit ==
    /\ stage = "naming"
    /\ nameSet = {}
    /\ produced = <<>>
    /\ GroupIdle
    /\ CallIdle
    /\ ConvertIdle

\* baseName = generateFieldName(labelText, type, page);
\* name = deduplicateName(baseName, nameSet); nameSet.add(name)
NameField ==
    /\ stage = "naming"
    /\ Len(produced) < MaxNamed
    /\ \E labelText \in NameTexts, pg \in 1..2 :
          LET baseName == generateFieldName(labelText, "cell", pg)
              name == deduplicateName(baseName, nameSet)
          IN  /\ nameSet' = nameSet \cup {name}
              /\ produced' = Append(produced,
                     [baseName |-> baseName, key |-> name, before |-> nameSet])
    /\ UNCHANGED <<stage, groupVars, callVars, convertVars>>

NameNext == NameField

SpecNames == NameInit /\ [][NameNext]_vars

\* the number of fields among the first i that generated the base name of
\* the i-th
SameBaseUpTo(i) ==
    Cardinality({j \in 1..i : produced[j].baseName = produced[i].baseName})

\* C2: fields produced in sequence over one used-names set that generate the
\* same base name B receive the keys B, B_2, B_3, ... in production order;
\* each chosen name is registered at once and deduplicateName never returns a
\* name that is already in the used-names set.
C2_DedupNumbering ==
    /\ \A i \in 1..Len(produced) :
          /\ produced[i].key =
                IF SameBaseUpTo(i) = 1 THEN produced[i].baseName
                ELSE produced[i].baseName \o <<"_">> \o Decimal(SameBaseUpTo(i))
          /\ produced[i].key \notin produced[i].before
          /\ produced[i].before = {produced[j].key : j \in 1..(i - 1)}
    /\ nameSet = {produced[j].key : j \in 1..Len(produced)}

C2_Witness ==
    /\ Len(produced) >= 3
    /\ \A i \in 1..3 : produced[i].baseName = <<"p", "1", "_", "n", "o", "m">>
    /\ produced[3].key = <<"p", "1", "_", "n", "o", "m", "_", "3">>

(***************************************************************************)
(* cli.ts: convert.  One action per stretch of code between two awaits of  *)
(* the external renderer; stage is the position in convert.                *)
(***************************************************************************)
\* what the rest of the loop body does with the page once extractBoxes has
\* returned: the Field list after the iteration
\* const remainingLabels = labels.filter((_, i) => !consumedLabelIndices.has(i))
RemainingLabels(labels, consumed) ==
    LET indexed == [i \in 1..Len(labels) |-> [index |-> i, label |-> labels[i]]]
        kept == SelectSeq(indexed, LAMBDA e : e.index \notin consumed)
    IN  [i \in 1..Len(kept) |-> kept[i].label]

\* the rest of the iteration once extractDotLineFields has returned dot
PageFields(fields, pg, labels, svg, dot) ==
    IF svg.transform = <<>> \/ svg.boxes = <<>>
    THEN (IF dot.fields = <<>> THEN fields ELSE fields \o dot.fields)
    ELSE \* the used-names set, with the dot-line names, is handed to
         \* mapLabelsToFields as a sixth argument, which it does not declare
         fields
             \o mapLabelsToFields(groupBoxesIntoFields(svg.boxes, pg),
                                  RemainingLabels(labels, dot.consumedLabelIndices),
                                  svg.transform[1], pg, svg.pageHeight)
             \o dot.fields

FieldsAfterPage(fields, pg, labels, svg) ==
    PageFields(fields, pg, labels, svg,
               extractDotLineFields(labels, pg, svg.pageHeight,
                                    {fields[i].key : i \in 1..Len(fields)}))

PAGE_HEIGHT == 60000

Identity == [a |-> 1, b |-> 0, c |-> 0, d |-> 1, e |-> 0, f |-> 0]

\* the vertically mirrored transform of the renderer's pages
Mirrored == [a |-> 1, b |-> 0, c |-> 0, d |-> -1, e |-> 0, f |-> PAGE_HEIGHT]

Cell(x, y) == [x |-> x, y |-> y, width |-> 892, height |-> 1091, type |-> "cell"]

Checkbox(x, y) ==
    [x |-> x, y |-> y, width |-> 892, height |-> 1091, type |-> "checkbox"]

\* the results extractBoxes returns: no box and no transform, or boxes that
\* share the page's transform
SvgResults ==
    {[boxes |-> <<>>, transform |-> <<>>, pageHeight |-> PAGE_HEIGHT]}
    \cup
    {[boxes |-> bs, transform |-> <<m>>, pageHeight |-> PAGE_HEIGHT] :
        bs \in {<<Cell(2100, 10000)>>,
                <<Cell(2100, 10000), Cell(2100, 12000)>>,
                <<Checkbox(6662, 10000), Cell(2100, 10000)>>},
        m \in {Identity, Mirrored}}

DotsText == Run(".", 12)

NomText == <<"N", "o", "m", " ", ":">>

LabelAt(text, xMin, yMin, pg) ==
    [text |-> text, xMin |-> xMin, yMin |-> yMin, xMax |-> xMin + 4000,
     yMax |-> yMin + 1000, page |-> pg]

\* the label lists of a page: none; a dot line; a caption at the top of the
\* page; a caption with a dot line 20 below it
PageLabelLists(pg) ==
    {<<>>,
     <<LabelAt(DotsText, 2100, 30000, pg)>>,
     <<LabelAt(NomText, 2100, 8500, pg)>>,
     <<LabelAt(NomText, 2100, 8500, pg), LabelAt(DotsText, 2100, 11500, pg)>>}

ConvertInit ==
    /\ stage = "getPageCount"
    /\ ConvertIdle
    /\ GroupIdle
    /\ CallIdle
    /\ NameIdle

\* const pageCount = await getPageCount(inputPath)
GetPageCount ==
    /\ stage = "getPageCount"
    /\ stage' = "extractBbox"
    /\ pageCount' \in 1..MaxPages
    /\ UNCHANGED <<curPage, labelsByPage, svgResult, allFields,
                   groupVars, callVars, nameVars>>

\* labelsByPage = extractLabels(await extractBbox(inputPath)); page = 1
ExtractBbox ==
    /\ stage = "extractBbox"
    /\ stage' = "extractSvg"
    /\ \E lbp \in [1..pageCount -> UNION {PageLabelLists(pg) : pg \in 1..pageCount}] :
          /\ \A pg \in 1..pageCount : lbp[pg] \in PageLabelLists(pg)
          /\ labelsByPage' = lbp
    /\ curPage' = 1
    /\ UNCHANGED <<pageCount, svgResult, allFields, groupVars, callVars, nameVars>>

\* page <= pageCount; extractBoxes(await extractSvg(inputPath, page))
ExtractSvg ==
    /\ stage = "extractSvg"
    /\ curPage <= pageCount
    /\ stage' = "page"
    /\ svgResult' \in SvgResults
    /\ UNCHANGED <<pageCount, curPage, labelsByPage, allFields,
                   groupVars, callVars, nameVars>>

\* page <= pageCount; extractBoxes throws its page-height error: nothing in
\* the loop catches it, so the promise of convert is rejected
ExtractBoxesThrows ==
    /\ stage = "extractSvg"
    /\ curPage <= pageCount
    /\ stage' = "rejected"
    /\ UNCHANGED <<convertVars, groupVars, callVars, nameVars>>

\* main: catch (err) { console.error(...); process.exit(1) }
MainExits ==
    /\ stage = "rejected"
    /\ stage' = "exit1"
    /\ UNCHANGED <<convertVars, groupVars, callVars, nameVars>>

\* the rest of the loop body; page++
ProcessPage ==
    /\ stage = "page"
    /\ stage' = "extractSvg"
    /\ allFields' = FieldsAfterPage(allFields, curPage, labelsByPage[curPage], svgResult)
    /\ curPage' = curPage + 1
    /\ svgResult' = <<>>
    /\ UNCHANGED <<pageCount, labelsByPage, groupVars, callVars, nameVars>>

\* the loop is over: the fields are injected, written and returned
ReturnFields ==
    /\ stage = "extractSvg"
    /\ curPage > pageCount
    /\ stage' = "done"
    /\ UNCHANGED <<convertVars, groupVars, callVars, nameVars>>

ConvertNext ==
    \/ GetPageCount
    \/ ExtractBbox
    \/ ExtractSvg
    \/ ExtractBoxesThrows
    \/ MainExits
    \/ ProcessPage
    \/ ReturnFields

SpecConvert == ConvertInit /\ [][ConvertNext]_vars

\* C1: after convert has processed all pages, the keys of all Fields in the
\* final list are pairwise distinct, also between a page's dot-leader fields
\* and the same page's box-matched fields.
C1_KeysDistinct ==
    stage = "done" =>
        \A i, j \in 1..Len(allFields) :
            i # j => allFields[i].key # allFields[j].key

\* field q lies on a higher row of the page than field p
Above(q, p) == q.props.pdfRect.y > p.props.pdfRect.y + U(2)

\* C9: in the final Field list the fields of each page appear top-to-bottom
\* and, within a row, left-to-right by their pdfRect in PDF space, for every
\* page transform.
C9_PageOrder ==
    stage = "done" =>
        \A i, j \in 1..Len(allFields) :
            (i < j /\ allFields[i].props.page = allFields[j].props.page) =>
                /\ ~Above(allFields[j], allFields[i])
                /\ ~Above(allFields[i], allFields[j]) =>
                      allFields[i].props.pdfRect.x <= allFields[j].props.pdfRect.x

\* C19: when extractBoxes raises its page-height error on one page of a
\* multi-page document, the run skips that page and goes on with the
\* remaining pages: it never ends with an error while pages are left.
C19_RemainingPagesProcessed ==
    stage \in {"rejected", "exit1"} => curPage >= pageCount

(***************************************************************************)
(* Specification of the Dot-Leader Detector on its own: a label list, then *)
(* one call of extractDotLineFields                                        *)
(***************************************************************************)
\* twelve periods: a dot leader
DotLeaderText == <<".", ".", ".", ".", ".", ".", ".", ".", ".", ".", ".", ".">>

\* three periods: not a dot leader
ShortDotsText == <<".", ".", ".">>

CaptionText == <<"N", "o", "m", " ", ":">>

\* 100 -> 120 is a step of exactly 20; 100 -> 125 a step of 25;
\* 120 -> 140.01 a step of 20.01
DotLabelYs == {10000, 12000, 12500, 14001}

\* labels as the tests of extractDotLineFields make them: 10 high
DotLabelSet ==
    {[text |-> t, xMin |-> 2100, yMin |-> y, xMax |-> 6100, yMax |-> y + 1000,
      page |-> 1] :
        t \in {DotLeaderText, ShortDotsText, CaptionText}, y \in DotLabelYs}

DotFieldsInit ==
    /\ stage = "input"
    /\ args = [labels |-> <<>>]
    /\ result = <<>>
    /\ GroupIdle
    /\ NameIdle
    /\ ConvertIdle

\* the caller builds the label list of the page
AddLabel ==
    /\ stage = "input"
    /\ Len(args.labels) < MaxLabels
    /\ \E l \in DotLabelSet : args' = [labels |-> Append(args.labels, l)]
    /\ UNCHANGED <<stage, result, groupVars, nameVars, convertVars>>

\* extractDotLineFields(labels, 1, PAGE_HEIGHT, new Set())
CallExtractDotLineFields ==
    /\ stage = "input"
    /\ stage' = "returned"
    /\ result' = extractDotLineFields(args.labels, 1, PAGE_HEIGHT, {})
    /\ UNCHANGED <<args, groupVars, nameVars, convertVars>>

DotFieldsNext == AddLabel \/ CallExtractDotLineFields

SpecDotFields == DotFieldsInit /\ [][DotFieldsNext]_vars

\* the indices of the dot-leader labels of the call
DotLeaders == {i \in 1..Len(args.labels) : isDotLine(args.labels[i].text)}

\* the dot leader before the i-th label in label order, 0 when there is none
PrevDotLeader(i) ==
    IF \E j \in DotLeaders : j < i
    THEN CHOOSE j \in DotLeaders : j < i /\ \A m \in DotLeaders : m < i => m <= j
    ELSE 0

\* the dot leaders that start a maximal run: the first one, and every one
\* whose yMin is more than 20 away from the yMin of the dot leader before it
RunStarts ==
    {i \in DotLeaders :
        \/ PrevDotLeader(i) = 0
        \/ Abs(args.labels[i].yMin - args.labels[PrevDotLeader(i)].yMin) > U(20)}

\* the k-th run start in label order
RunStart(k) ==
    CHOOSE s \in RunStarts : Cardinality({t \in RunStarts : t <= s}) = k

\* the dot leaders of the run that starts at s
RunOf(s) ==
    {i \in DotLeaders : i >= s /\ ~(\E t \in RunStarts : s < t /\ t <= i)}

\* C11: extractDotLineFields emits exactly one field per maximal run of
\* dot-leader labels, consecutive among the dot leaders in label order, whose
\* successive yMin differ by at most 20 units; each field has type input and
\* no maxLength, covers the lines of its run, and has multiline = true if and
\* only if its run holds more than one dot-leader line.
C11_OneFieldPerRun ==
    stage = "returned" =>
        /\ Len(result.fields) = Cardinality(RunStarts)
        /\ \A k \in 1..Len(result.fields) :
              LET f == result.fields[k]
                  run == RunOf(RunStart(k))
              IN  /\ f.type = "input"
                  /\ f.props.maxLength = <<>>
                  /\ f.props.multiline = (IF Cardinality(run) > 1 THEN <<TRUE>> ELSE <<>>)
                  /\ \A i \in run :
                        /\ args.labels[i].yMin >= PAGE_HEIGHT - (f.props.pdfRect.y + f.props.pdfRect.height)
                        /\ args.labels[i].yMax <= PAGE_HEIGHT - f.props.pdfRect.y
                  /\ \E i \in run : args.labels[i].yMax = PAGE_HEIGHT - f.props.pdfRect.y

C11_Witness ==
    /\ stage = "returned"
    /\ Len(result.fields) = 2
    /\ result.fields[1].props.multiline = <<TRUE>>
    /\ result.fields[2].props.multiline = <<>>
    /\ Len(args.labels) = 3
    /\ \A i \in 1..3 : args.labels[i].text = DotLeaderText
    /\ args.labels[2].yMin - args.labels[1].yMin = U(20)
    /\ args.labels[3].yMin - args.labels[2].yMin > U(20)

\* C12: the consumedLabelIndices returned by extractDotLineFields is exactly
\* the set of the indices of the dot-leader labels: every dot leader is
\* consumed and no label that is not a dot leader, caption or not, is.
C12_ConsumedAreDotLeaders ==
    stage = "returned" =>
        /\ result.consumedLabelIndices =
              {i \in 1..Len(args.labels) :
                  /\ \A c \in Range(args.labels[i].text) : c \in {".", "ELLIPSIS", " ", "\t"}
                  /\ Cardinality({k \in 1..Len(args.labels[i].text) :
                                     args.labels[i].text[k] = "."}) >= 10}
        /\ \A i \in 1..Len(args.labels) :
              args.labels[i].text = CaptionText => i \notin result.consumedLabelIndices

C12_Witness ==
    /\ stage = "returned"
    /\ Len(args.labels) = 3
    /\ args.labels[1].text = CaptionText
    /\ args.labels[2].text = DotLeaderText
    /\ args.labels[3].text = ShortDotsText
    /\ Len(result.fields) = 1
    /\ result.fields[1].props.label = CaptionText
    /\ result.consumedLabelIndices = {2}

\* C13: no Field emitted for a list of labels has a dot-leader label as its
\* caption; here for the dot-leader fields, whose caption is searched while
\* the later dot groups are not yet marked consumed.
C13_NoDotLeaderCaption ==
    stage = "returned" =>
        \A k \in 1..Len(result.fields) : ~isDotLine(result.fields[k].props.label)

(***************************************************************************)
(* Specification of the Label-to-Field Matcher on its own: boxes, grouped  *)
(* by groupBoxesIntoFields, and labels, then one call of mapLabelsToFields *)
(***************************************************************************)
\* boxes of one row: 21.00 and 29.92 touch
MatchBoxSet ==
    {[x |-> x, y |-> 10000, width |-> 892, height |-> 1091, type |-> t] :
        x \in {2100, 2992}, t \in BoxType}

\* under the identity transform a box with y = 100 has its top edge at
\* PAGE_HEIGHT - 100: a label with yMin 85 ends 5 above it, one with yMin 65
\* ends exactly 25 above it, one with yMin 63 ends 27 above it, one with
\* yMin 10 is out of reach; the label at x = 500 is beside every box
MatchLabelSet ==
    {LabelAt(CaptionText, 2100, y, 1) : y \in {8500, 6500, 6300, 1000}}
    \cup {LabelAt(CaptionText, 50000, 8500, 1)}

MatchInit ==
    /\ stage = "boxes"
    /\ args = [boxes |-> <<>>, labels |-> <<>>]
    /\ result = <<>>
    /\ GroupIdle
    /\ NameIdle
    /\ ConvertIdle

\* the caller collects the boxes of the page
AddMatchBox ==
    /\ stage = "boxes"
    /\ Len(args.boxes) < MaxBoxes
    /\ \E b \in MatchBoxSet : args' = [args EXCEPT !.boxes = Append(@, b)]
    /\ UNCHANGED <<stage, result, groupVars, nameVars, convertVars>>

\* the caller collects the labels of the page
AddMatchLabel ==
    /\ stage \in {"boxes", "labels"}
    /\ stage' = "labels"
    /\ Len(args.labels) < MaxMatchLabels
    /\ \E l \in MatchLabelSet : args' = [args EXCEPT !.labels = Append(@, l)]
    /\ UNCHANGED <<result, groupVars, nameVars, convertVars>>

\* mapLabelsToFields(groupBoxesIntoFields(boxes, page), labels, transform,
\*                   page, PAGE_HEIGHT)
CallMapLabelsToFields ==
    /\ stage \in {"boxes", "labels"}
    /\ stage' = "returned"
    /\ \E transform \in {Identity, Mirrored}, pg \in 1..2 :
          LET groups == groupBoxesIntoFields(args.boxes, pg)
          IN  result' = [groups |-> groups,
                         transform |-> transform,
                         page |-> pg,
                         fields |-> mapLabelsToFields(groups, args.labels, transform,
                                                      pg, PAGE_HEIGHT)]
    /\ UNCHANGED <<args, groupVars, nameVars, convertVars>>

MatchNext == AddMatchBox \/ AddMatchLabel \/ CallMapLabelsToFields

SpecMatch == MatchInit /\ [][MatchNext]_vars

Eligible(l, rect) ==
    LET yDistance == (PAGE_HEIGHT - l.yMax) - (rect.y + rect.height)
    IN  /\ yDistance >= 0
        /\ yDistance <= U(25)
        /\ \/ (l.xMin < rect.x + rect.width /\ l.xMax > rect.x)
           \/ (l.xMax <= rect.x /\ rect.x - l.xMax < U(50))

FallbackName(pg) == <<"p">> \o Decimal(pg) \o <<"_", "f", "i", "e", "l", "d">>

\* C15: for every field group for which no label is eligible (also when the
\* label list is empty) the matcher emits a Field with an empty caption whose
\* key is p{page}_field, with the first free suffix _2, _3, ... only if that
\* name is already used by a field emitted before it.
C15_FallbackWhenNoLabel ==
    stage = "returned" =>
        /\ Len(result.fields) = Len(result.groups)
        /\ \A k \in 1..Len(result.groups) :
              LET rect == computeGroupPdfRect(result.groups[k], result.transform,
                                              PAGE_HEIGHT)
                  f == result.fields[k]
                  used == {result.fields[j].key : j \in 1..(k - 1)}
                  base == FallbackName(result.page)
              IN  (\A i \in 1..Len(args.labels) : ~Eligible(args.labels[i], rect)) =>
                      /\ f.props.label = <<>>
                      /\ base \notin used => f.key = base
                      /\ base \in used =>
                            \E n \in 2..(Len(result.groups) + 1) :
                                /\ f.key = base \o <<"_">> \o Decimal(n)
                                /\ f.key \notin used
                                /\ \A m \in 2..(n - 1) :
                                      (base \o <<"_">> \o Decimal(m)) \in used

C15_Witness ==
    /\ stage = "returned"
    /\ Len(args.labels) = 2
    /\ Len(result.fields) = 2
    /\ result.page = 2
    /\ result.fields[1].props.label = <<>>
    /\ result.fields[1].key = <<"p", "2", "_", "f", "i", "e", "l", "d">>
    /\ result.fields[2].props.label = <<>>
    /\ result.fields[2].key = <<"p", "2", "_", "f", "i", "e", "l", "d", "_", "2">>

(***************************************************************************)
(* Specification of generateFieldName on its own: a caption made of        *)
(* pieces, then one call                                                   *)
(***************************************************************************)
CaptionPieces ==
    {<<"N", "o", "m">>,
     <<"P", "r", "e_acute", "N", "O", "M">>,
     <<"n", "DEGREE", "2">>,
     <<"d", "'", "oe_lig", "u", "v", "r", "e">>,
     <<" ">>,
     <<"\t">>,
     <<":">>}

GenNameInit ==
    /\ stage = "input"
    /\ args = [text |-> <<>>, pieces |-> 0]
    /\ result = <<>>
    /\ GroupIdle
    /\ NameIdle
    /\ ConvertIdle

AppendPiece ==
    /\ stage = "input"
    /\ args.pieces < MaxTokens
    /\ \E piece \in CaptionPieces :
          args' = [text |-> args.text \o piece, pieces |-> args.pieces + 1]
    /\ UNCHANGED <<stage, result, groupVars, nameVars, convertVars>>

\* generateFieldName(text, type, page)
CallGenerateFieldName ==
    /\ stage = "input"
    /\ stage' = "returned"
    /\ \E pg \in 1..2, type \in BoxType :
          result' = [page |-> pg, name |-> generateFieldName(args.text, type, pg)]
    /\ UNCHANGED <<args, groupVars, nameVars, convertVars>>

GenNameNext == AppendPiece \/ CallGenerateFieldName

SpecGenName == GenNameInit /\ [][GenNameNext]_vars

\* a caption character by character: an accented letter becomes its base
\* letter, an ASCII letter, a digit and a whitespace character stay, every
\* other character goes
RECURSIVE Cleaned(_)
Cleaned(text) ==
    IF text = <<>> THEN <<>>
    ELSE (IF Head(text) = "e_acute" THEN <<"e">>
          ELSE IF Head(text) \in AsciiAlnum \cup {" ", "\t"} THEN <<Head(text)>>
          ELSE <<>>)
         \o Cleaned(Tail(text))

\* the camel-case join of a cleaned caption, position by position: whitespace
\* is left out, a character that starts a token other than the first is
\* capitalised, every other character is lower-cased
RECURSIVE CamelFrom(_, _)
CamelFrom(cleaned, i) ==
    IF i > Len(cleaned) THEN <<>>
    ELSE (IF cleaned[i] \in {" ", "\t"} THEN <<>>
          ELSE IF /\ i > 1
                  /\ cleaned[i - 1] \in {" ", "\t"}
                  /\ \E j \in 1..(i - 1) : cleaned[j] \notin {" ", "\t"}
               THEN <<toUpperCase(cleaned[i])>>
          ELSE <<toLowerCase(cleaned[i])>>)
         \o CamelFrom(cleaned, i + 1)

WHITE_THRESHOLD == 95

DARK_STROKE_THRESHOLD == 20

MAX_BOX_WIDTH == 50

MAX_BOX_HEIGHT == 50

MIN_BOX_SIZE == 3

\* one unit of a matrix component
ONE == 10000

NaN == [kind |-> "nan", value |-> 0]

\* the longest prefix of str made of digits
RECURSIVE DigitRun(_)
DigitRun(str) ==
    IF str # <<>> /\ Head(str) \in Range(Digits)
    THEN <<Head(str)>> \o DigitRun(Tail(str))
    ELSE <<>>

DigitValue(c) == (CHOOSE i \in 1..Len(Digits) : Digits[i] = c) - 1

RECURSIVE DigitsValue(_)
DigitsValue(ds) ==
    IF ds = <<>> THEN 0
    ELSE 10 * DigitsValue(SubSeq(ds, 1, Len(ds) - 1)) + DigitValue(ds[Len(ds)])

IsPrefix(pre, str) == Len(pre) <= Len(str) /\ SubSeq(str, 1, Len(pre)) = pre

\* parseFloat: leading whitespace is skipped, then the longest prefix that is
\* a decimal literal (sign, digits, fraction) or Infinity is read and the
\* rest is ignored; NaN when there is no such prefix.  The value counts
\* hundredths (the strings of the model have at most two decimals and no
\* exponent).
parseFloat(str) ==
    LET t == TrimStart(str)
        negative == t # <<>> /\ Head(t) = "-"
        unsigned == IF t # <<>> /\ Head(t) \in {"-", "+"} THEN Tail(t) ELSE t
        whole == DigitRun(unsigned)
        afterWhole == SubSeq(unsigned, Len(whole) + 1, Len(unsigned))
        fraction == IF afterWhole # <<>> /\ Head(afterWhole) = "."
                    THEN DigitRun(Tail(afterWhole)) ELSE <<>>
        hundredths == DigitsValue(SubSeq(fraction \o <<"0", "0">>, 1, 2))
        magnitude == 100 * DigitsValue(whole) + hundredths
    IN  IF IsPrefix(<<"I", "n", "f", "i", "n", "i", "t", "y">>, unsigned)
        THEN [kind |-> "infinity", value |-> 0]
        ELSE IF whole = <<>> /\ fraction = <<>> THEN NaN
        ELSE [kind |-> "number",
              value |-> IF negative THEN 0 - magnitude ELSE magnitude]

\* str.split(/\s+/): the pieces between the maximal runs of whitespace, the
\* empty pieces at the two ends included
RECURSIVE SplitWhitespace(_, _, _, _)
SplitWhitespace(str, current, pieces, inRun) ==
    IF str = <<>> THEN Append(pieces, current)
    ELSE IF Head(str) \in Whitespace
         THEN (IF inRun THEN SplitWhitespace(Tail(str), current, pieces, TRUE)
               ELSE SplitWhitespace(Tail(str), <<>>, Append(pieces, current), TRUE))
         ELSE SplitWhitespace(Tail(str), Append(current, Head(str)), pieces, FALSE)

\* attr(name) ?? ''
AttrOrEmpty(attr) == IF attr = <<>> THEN <<>> ELSE attr[1]

NoPageHeightNegative(n) == n.kind # "number" \/ n.value < 0

\* !Number.isFinite(pageHeight) || pageHeight <= 0
NoPageHeight(n) == n.kind # "number" \/ n.value <= 0

\* lines 21-35: the page height, or NaN where the code throws
PageHeightOf(svg) ==
    LET vbParts == SplitWhitespace(AttrOrEmpty(svg.viewBox), <<>>, <<>>, FALSE)
        fromViewBox == IF Len(vbParts) >= 4 THEN parseFloat(vbParts[4])
                       ELSE [kind |-> "number", value |-> 0]
        pageHeight == IF NoPageHeight(fromViewBox)
                      THEN parseFloat(AttrOrEmpty(svg.height))
                      ELSE fromViewBox
    IN  IF NoPageHeight(pageHeight) THEN NaN ELSE pageHeight

isWhiteColor(color) ==
    /\ color # <<>>
    /\ \A i \in 1..3 : color[1][i] >= WHITE_THRESHOLD

isDarkColor(color) ==
    /\ color # <<>>
    /\ \A i \in 1..3 : color[1][i] < DARK_STROKE_THRESHOLD

classifyBoxAnyWidth(stroke, strokeWidth) ==
    IF isWhiteColor(stroke) THEN <<"cell">>
    ELSE IF isDarkColor(stroke) THEN <<"checkbox">>
    ELSE <<>>

\* 'cell' | 'checkbox' | null; the stroke width counts hundredths
classifyBox(stroke, strokeWidth) ==
    IF isWhiteColor(stroke) /\ strokeWidth >= 90 THEN <<"cell">>
    ELSE IF isDarkColor(stroke) THEN <<"checkbox">>
    ELSE <<>>

\* the points of the M and L commands; ok is FALSE at any other command
\* but Z, where parseRectPath returns null
RECURSIVE PathPoints(_)
PathPoints(commands) ==
    IF commands = <<>> THEN [ok |-> TRUE, points |-> <<>>]
    ELSE LET c == Head(commands)
             rest == PathPoints(Tail(commands))
         IN  IF c.cmd \in {"M", "L"}
             THEN [rest EXCEPT !.points = <<[x |-> c.x, y |-> c.y]>> \o @]
             ELSE IF c.cmd = "Z" THEN rest
             ELSE [ok |-> FALSE, points |-> <<>>]

parseRectPath(d) ==
    LET parsed == PathPoints(d)
        points == parsed.points
    IN  IF ~parsed.ok THEN <<>>
        ELSE IF Len(points) < 4 THEN <<>>
        ELSE LET xs == [i \in 1..4 |-> points[i].x]
                 ys == [i \in 1..4 |-> points[i].y]
                 width == MaxOf(xs) - MinOf(xs)
                 height == MaxOf(ys) - MinOf(ys)
             IN  IF width < U(1) \/ height < U(1) THEN <<>>
                 ELSE <<[x |-> MinOf(xs), y |-> MinOf(ys),
                         width |-> width, height |-> height]>>

\* result = m1 * m2: m2 is applied first (the products of two components
\* are brought back to ten-thousandths)
composeTransforms(m1, m2) ==
    [a |-> (m1.a * m2.a + m1.c * m2.b) \div ONE,
     b |-> (m1.b * m2.a + m1.d * m2.b) \div ONE,
     c |-> (m1.a * m2.c + m1.c * m2.d) \div ONE,
     d |-> (m1.b * m2.c + m1.d * m2.d) \div ONE,
     e |-> ((m1.a * m2.e + m1.c * m2.f) \div ONE) + m1.e,
     f |-> ((m1.b * m2.e + m1.d * m2.f) \div ONE) + m1.f]

matricesEqualLinear(m1, m2) ==
    /\ Abs(m1.a - m2.a) < 10
    /\ Abs(m1.b - m2.b) < 10
    /\ Abs(m1.c - m2.c) < 10
    /\ Abs(m1.d - m2.d) < 10

\* tol = 0.001
matricesEqual(m1, m2) ==
    /\ Abs(m1.a - m2.a) < 10
    /\ Abs(m1.b - m2.b) < 10
    /\ Abs(m1.c - m2.c) < 10
    /\ Abs(m1.d - m2.d) < 10
    /\ Abs(m1.e - m2.e) < 10
    /\ Abs(m1.f - m2.f) < 10

\* the walk from the parent upwards: the transforms of the g elements,
\* outermost first, and whether a defs element ended the walk
RECURSIVE AncestorWalk(_, _)
AncestorWalk(ancestors, transforms) ==
    IF ancestors = <<>> THEN [transforms |-> transforms, insideDefs |-> FALSE]
    ELSE LET current == Head(ancestors)
         IN  IF current.tag = "svg"
             THEN [transforms |-> transforms, insideDefs |-> FALSE]
             ELSE IF current.tag = "defs"
             THEN [transforms |-> transforms, insideDefs |-> TRUE]
             ELSE IF current.tag = "g" /\ current.transform # <<>>
             THEN AncestorWalk(Tail(ancestors), current.transform \o transforms)
             ELSE AncestorWalk(Tail(ancestors), transforms)

\* transforms.reduce(composeTransforms)
RECURSIVE ComposeAll(_, _)
ComposeAll(acc, transforms) ==
    IF transforms = <<>> THEN acc
    ELSE ComposeAll(composeTransforms(acc, Head(transforms)), Tail(transforms))

\* collectAncestorTransform taking the last transformed use element
collectAncestorTransformLastUse(uses, ancestors) ==
    LET walk == AncestorWalk(ancestors, <<>>)
        parsed == SelectSeq(uses, LAMBDA t : t # <<>>)
    IN  IF walk.insideDefs
        THEN (IF parsed = <<>> THEN <<>> ELSE parsed[Len(parsed)])
        ELSE IF walk.transforms = <<>> THEN <<>>
        ELSE <<ComposeAll(Head(walk.transforms), Tail(walk.transforms))>>

\* TransformMatrix | null; uses holds the transform of every use element
\* that is a child of the root, in document order
collectAncestorTransform(uses, ancestors) ==
    LET walk == AncestorWalk(ancestors, <<>>)
        parsed == SelectSeq(uses, LAMBDA t : t # <<>>)
    IN  IF walk.insideDefs
        THEN (IF parsed = <<>> THEN <<>> ELSE parsed[1])
        ELSE IF walk.transforms = <<>> THEN <<>>
        ELSE <<ComposeAll(Head(walk.transforms), Tail(walk.transforms))>>

\* lines 41-65: the box and the effective transform of a path, or <<>> where
\* the callback returns before it compares transforms
PathCandidate(uses, path) ==
    IF path.d = <<>> \/ ~isWhiteColor(path.fill) THEN <<>>
    ELSE LET rect == parseRectPath(path.d)
         IN  IF rect = <<>> THEN <<>>
             ELSE IF \/ rect[1].width > U(MAX_BOX_WIDTH)
                     \/ rect[1].height > U(MAX_BOX_HEIGHT)
             THEN <<>>
             ELSE IF \/ rect[1].width < U(MIN_BOX_SIZE)
                     \/ rect[1].height < U(MIN_BOX_SIZE)
             THEN <<>>
             ELSE LET type == classifyBox(path.stroke, path.strokeWidth)
                      ancestorTransform == collectAncestorTransform(uses, path.ancestors)
                  IN  IF type = <<>> THEN <<>>
                      ELSE IF path.transform = <<>> THEN <<>>
                      ELSE <<[box |-> [x |-> rect[1].x, y |-> rect[1].y,
                                       width |-> rect[1].width,
                                       height |-> rect[1].height,
                                       type |-> type[1]],
                              effectiveTransform |->
                                  IF ancestorTransform # <<>>
                                  THEN composeTransforms(ancestorTransform[1],
                                                         path.transform[1])
                                  ELSE path.transform[1]]>>

\* the each-loop over the paths from the i-th on; warnings counts the calls
\* of console.warn
RECURSIVE ExtractFrom(_, _, _)
ExtractFrom(svg, i, acc) ==
    IF i > Len(svg.paths) THEN acc
    ELSE LET candidate == PathCandidate(svg.uses, svg.paths[i])
         IN  IF candidate = <<>> THEN ExtractFrom(svg, i + 1, acc)
             ELSE IF acc.transform = <<>>
             THEN ExtractFrom(svg, i + 1,
                      [acc EXCEPT !.transform = <<candidate[1].effectiveTransform>>,
                                  !.boxes = Append(@, candidate[1].box)])
             ELSE IF ~matricesEqual(acc.transform[1], candidate[1].effectiveTransform)
             THEN ExtractFrom(svg, i + 1, [acc EXCEPT !.warnings = @ + 1])
             ELSE ExtractFrom(svg, i + 1,
                      [acc EXCEPT !.boxes = Append(@, candidate[1].box)])

\* the ExtractResult, with the number of warnings; threw is TRUE, and there
\* is no result, where the code throws
extractBoxes(svg) ==
    LET pageHeight == PageHeightOf(svg)
    IN  IF pageHeight = NaN
        THEN [threw |-> TRUE, boxes |-> <<>>, transform |-> <<>>,
              pageHeight |-> 0, warnings |-> 0]
        ELSE ExtractFrom(svg, 1,
                 [threw |-> FALSE, boxes |-> <<>>, transform |-> <<>>,
                  pageHeight |-> pageHeight.value, warnings |-> 0])

(***************************************************************************)
(* Specification of the Box Extractor on its own: the root of a page, its  *)
(* paths one after the other, then one call of extractBoxes                *)
(***************************************************************************)
\* the words of a viewBox or height attribute
Words ==
    [w842 |-> <<"8", "4", "1", ".", "8", "9">>,
     w595 |-> <<"5", "9", "5">>,
     zero |-> <<"0">>,
     minus |-> <<"-", "8", "4", "2">>,
     abc |-> <<"a", "b", "c">>,
     pt |-> <<"5", "7", "2", "p", "t">>,
     infinity |-> <<"I", "n", "f", "i", "n", "i", "t", "y">>]

\* the number a word denotes, in hundredths, when it denotes a finite one
WordValue ==
    [w842 |-> <<84189>>, w595 |-> <<59500>>, zero |-> <<0>>, minus |-> <<-84200>>,
     abc |-> <<>>, pt |-> <<57200>>, infinity |-> <<>>]

\* a viewBox is absent, or has min-x, min-y and width only, or has a height
ViewBoxes ==
    {<<>>, <<<<"zero", "zero", "w595">>>>}
    \cup {<<<<"zero", "zero", "w595", h>>>> : h \in {"w842", "zero", "minus", "abc"}}

Heights == {<<>>, <<"pt">>, <<"zero">>, <<"infinity">>}

\* the attribute as the renderer writes it: the words with one space between
RECURSIVE JoinWords(_)
JoinWords(ws) ==
    IF Len(ws) = 1 THEN Words[ws[1]]
    ELSE Words[ws[1]] \o <<" ">> \o JoinWords(Tail(ws))

\* matrix(0.9993, 0, 0, -0.9993, -10.9357, 561.1963)
PageMatrix == [a |-> 9993, b |-> 0, c |-> 0, d |-> -9993, e |-> -109357, f |-> 5611963]

\* within the tolerance of PageMatrix: a differs by 0.0005
NearMatrix == [PageMatrix EXCEPT !.a = 9998]

\* at the tolerance of PageMatrix: e differs by 0.001
EdgeMatrix == [PageMatrix EXCEPT !.e = -109347]

\* a quarter turn
TurnedMatrix == [a |-> 0, b |-> ONE, c |-> 0 - ONE, d |-> 0, e |-> 0, f |-> 0]

UnitMatrix == [a |-> ONE, b |-> 0, c |-> 0, d |-> ONE, e |-> 0, f |-> 0]

\* M x y L x+w y L x+w y+h L x y+h Z M x y
RectCommands(x, y, w, h) ==
    <<[cmd |-> "M", x |-> x, y |-> y], [cmd |-> "L", x |-> x + w, y |-> y],
      [cmd |-> "L", x |-> x + w, y |-> y + h], [cmd |-> "L", x |-> x, y |-> y + h],
      [cmd |-> "Z", x |-> 0, y |-> 0], [cmd |-> "M", x |-> x, y |-> y]>>

White == <<<<100, 100, 100>>>>

Dark == <<<<13, 12, 12>>>>

PathElement(d, stroke, strokeWidth, transform, ancestors) ==
    [d |-> d, fill |-> White, stroke |-> stroke, strokeWidth |-> strokeWidth,
     transform |-> transform, ancestors |-> ancestors]

Root == [tag |-> "svg", transform |-> <<>>]

\* cells and a checkbox with the page's matrix or another one, a background
\* rectangle, a cell inside a group, a cell inside the definitions block
PathSet ==
    {PathElement(RectCommands(6144, 49458, 892, 1091), White, 100, <<m>>, <<Root>>) :
        m \in {PageMatrix, NearMatrix, EdgeMatrix, TurnedMatrix}}
    \cup
    {PathElement(RectCommands(23396, 46931, 800, 800), Dark, 50, <<PageMatrix>>,
                 <<Root>>),
     PathElement(RectCommands(1000, 1000, 19000, 4000), White, 100, <<TurnedMatrix>>,
                 <<Root>>),
     PathElement(RectCommands(7036, 49458, 892, 1091), White, 100, <<UnitMatrix>>,
                 <<[tag |-> "g", transform |-> <<PageMatrix>>], Root>>),
     PathElement(RectCommands(7928, 49458, 892, 1091), White, 100, <<UnitMatrix>>,
                 <<[tag |-> "g", transform |-> <<TurnedMatrix>>],
                   [tag |-> "defs", transform |-> <<>>], Root>>)}

\* the use elements under the root: none, or one without and one with a
\* transform
UseLists == {<<>>, <<<<>>, <<PageMatrix>>>>}

ExtractInit ==
    /\ stage = "input"
    /\ \E vb \in ViewBoxes, h \in Heights, uses \in UseLists :
          args = [root |-> [viewBox |-> vb, height |-> h],
                  svg |-> [viewBox |-> IF vb = <<>> THEN <<>> ELSE <<JoinWords(vb[1])>>,
                           height |-> IF h = <<>> THEN <<>> ELSE <<Words[h[1]]>>,
                           uses |-> uses,
                           paths |-> <<>>]]
    /\ result = <<>>
    /\ GroupIdle
    /\ NameIdle
    /\ ConvertIdle

\* the next path element of the document
AddPath ==
    /\ stage = "input"
    /\ Len(args.svg.paths) < MaxPaths
    /\ \E path \in PathSet : args' = [args EXCEPT !.svg.paths = Append(@, path)]
    /\ UNCHANGED <<stage, result, groupVars, nameVars, convertVars>>

\* extractBoxes(svgXml)
CallExtractBoxes ==
    /\ stage = "input"
    /\ stage' = "returned"
    /\ result' = extractBoxes(args.svg)
    /\ UNCHANGED <<args, groupVars, nameVars, convertVars>>

ExtractNext == AddPath \/ CallExtractBoxes

SpecExtract == ExtractInit /\ [][ExtractNext]_vars

\* the accepted paths of the call, each with its box and effective
\* transform: those that pass the colour, geometry, kind and transform tests
Candidates ==
    [i \in 1..Len(args.svg.paths) |-> PathCandidate(args.svg.uses, args.svg.paths[i])]

\* every component of the two matrices differs by less than 0.001
WithinTolerance(m1, m2) ==
    \A comp \in {"a", "b", "c", "d", "e", "f"} : Abs(m1[comp] - m2[comp]) < 10

\* C17: in every result of extractBoxes the page transform is the effective
\* transform of the first accepted box, the boxes kept are exactly the
\* accepted boxes whose effective transform is within 0.001 per component of
\* it, in document order, and every other accepted box is dropped with one
\* warning and leaves the page transform as it is.
C17_FirstTransformWins ==
    (stage = "returned" /\ ~result.threw) =>
        LET cands == Candidates
            accepted == {i \in 1..Len(cands) : cands[i] # <<>>}
            first == CHOOSE i \in accepted : \A j \in accepted : i <= j
            pageTransform == cands[first][1].effectiveTransform
            kept == {i \in accepted :
                        WithinTolerance(pageTransform, cands[i][1].effectiveTransform)}
        IN  IF accepted = {}
            THEN result.transform = <<>> /\ result.boxes = <<>> /\ result.warnings = 0
            ELSE /\ result.transform = <<pageTransform>>
                 /\ Len(result.boxes) = Cardinality(kept)
                 /\ \A i \in kept :
                       result.boxes[Cardinality({j \in kept : j <= i})] = cands[i][1].box
                 /\ result.warnings = Cardinality(accepted \ kept)

C17_Witness ==
    /\ stage = "returned"
    /\ ~result.threw
    /\ Len(args.svg.paths) = 3
    /\ \A i \in 1..3 : Candidates[i] # <<>>
    /\ Candidates[1][1].effectiveTransform = NearMatrix
    /\ Candidates[2][1].effectiveTransform = TurnedMatrix
    /\ Candidates[3][1].effectiveTransform = PageMatrix
    /\ result.transform = <<NearMatrix>>
    /\ Len(result.boxes) = 2
    /\ result.warnings = 1

\* the height the viewBox declares and the height attribute, when it is a
\* finite number > 0
DeclaredHeight(ws) ==
    IF ws # <<>> /\ WordValue[ws[Len(ws)]] # <<>> /\ WordValue[ws[Len(ws)]][1] > 0
    THEN WordValue[ws[Len(ws)]]
    ELSE <<>>

ViewBoxHeight ==
    IF args.root.viewBox # <<>> /\ Len(args.root.viewBox[1]) = 4
    THEN DeclaredHeight(args.root.viewBox[1])
    ELSE <<>>

\* C18: extractBoxes fails with a fatal error, returning no partial result,
\* exactly when neither the viewBox height of the page root nor its height
\* attribute yields a finite number > 0; when the viewBox height is absent or
\* not positive the height attribute is used, and otherwise the returned
\* pageHeight is the viewBox height.
C18_PageHeight ==
    stage = "returned" =>
        /\ result.threw <=>
              (ViewBoxHeight = <<>> /\ DeclaredHeight(args.root.height) = <<>>)
        /\ result.threw => (result.boxes = <<>> /\ result.transform = <<>>)
        /\ ViewBoxHeight # <<>> => result.pageHeight = ViewBoxHeight[1]
        /\ (ViewBoxHeight = <<>> /\ DeclaredHeight(args.root.height) # <<>>) =>
              result.pageHeight = DeclaredHeight(args.root.height)[1]

C18_Witness ==
    /\ stage = "returned"
    /\ args.root.viewBox = <<<<"zero", "zero", "w595", "zero">>>>
    /\ args.root.height = <<"pt">>
    /\ ~result.threw
    /\ result.pageHeight = 57200
    /\ Len(result.boxes) >= 1

(***************************************************************************)
(* extract-labels.ts.  A page is the list of its word elements, each with  *)
(* its trimmed text and the numbers its attributes parse to.               *)
(***************************************************************************)
WORD_JOIN_GAP_15 == 10 + 5

WORD_JOIN_GAP == 10

LINE_Y_TOLERANCE == 2

RECURSIVE JoinTexts(_)
JoinTexts(texts) ==
    IF texts = <<>> THEN <<>>
    ELSE IF Len(texts) = 1 THEN texts[1]
    ELSE texts[1] \o <<" ">> \o JoinTexts(Tail(texts))

wordsToLabel(ws, page) ==
    [text |-> JoinTexts([i \in 1..Len(ws) |-> ws[i].text]),
     xMin |-> MinOf([i \in 1..Len(ws) |-> ws[i].xMin]),
     yMin |-> MinOf([i \in 1..Len(ws) |-> ws[i].yMin]),
     xMax |-> MaxOf([i \in 1..Len(ws) |-> ws[i].xMax]),
     yMax |-> MaxOf([i \in 1..Len(ws) |-> ws[i].yMax]),
     page |-> page]

\* the lines: a word joins the last line when its yMin is within the
\* tolerance of the yMin of that line's last word
RECURSIVE LinesFrom(_, _, _)
LinesFrom(sorted, i, lines) ==
    IF i > Len(sorted) THEN lines
    ELSE LET prev == lines[Len(lines)]
             lastWord == prev[Len(prev)]
             curr == sorted[i]
         IN  IF Abs(curr.yMin - lastWord.yMin) <= U(LINE_Y_TOLERANCE)
             THEN LinesFrom(sorted, i + 1, [lines EXCEPT ![Len(lines)] = Append(@, curr)])
             ELSE LinesFrom(sorted, i + 1, Append(lines, <<curr>>))

\* the labels of one line: current is the span being built
RECURSIVE LineLabelsFrom(_, _, _, _, _)
LineLabelsFrom(sortedLine, i, current, labels, page) ==
    IF i > Len(sortedLine) THEN Append(labels, wordsToLabel(current, page))
    ELSE LET prev == current[Len(current)]
             curr == sortedLine[i]
             gap == curr.xMin - prev.xMax
         IN  IF gap <= U(WORD_JOIN_GAP)
             THEN LineLabelsFrom(sortedLine, i + 1, Append(current, curr), labels, page)
             ELSE LineLabelsFrom(sortedLine, i + 1, <<curr>>,
                                 Append(labels, wordsToLabel(current, page)), page)

RECURSIVE LabelsOfLines(_, _, _, _)
LabelsOfLines(lines, k, labels, page) ==
    IF k > Len(lines) THEN labels
    ELSE LET sortedLine == ArraySort(lines[k], "xMin")
         IN  LabelsOfLines(lines, k + 1,
                           LineLabelsFrom(sortedLine, 2, <<sortedLine[1]>>, labels, page),
                           page)

assembleLabels(words, page) ==
    IF Len(words) = 0 THEN <<>>
    ELSE LET sorted == ArraySort(words, "word")
             lines == LinesFrom(sorted, 2, <<<<sorted[1]>>>>)
         IN  LabelsOfLines(lines, 1, <<>>, page)

\* the Map from page number to labels, for the page elements in document
\* order
extractLabels(pages) ==
    [pageNum \in 1..Len(pages) |-> assembleLabels(pages[pageNum], pageNum)]

(***************************************************************************)
(* Specification of the stages of one page, one after the other: the       *)
(* Label Assembler on the page's words, the Dot-Leader Detector on its     *)
(* labels, the Row/Field Grouper on the page's boxes and the Label-to-Field*)
(* Matcher on the groups and the remaining labels                          *)
(***************************************************************************)
NineDotsText == <<".", ".", ".", ".", ".", ".", ".", ".", ".">>

\* words 40 wide and 10 high.  On the line at 85: 21.00 -> 66.00 leaves a
\* gap of 5 (joined), 66.00 -> 120.00 a gap of 14 (a new label), and 86.50 is
\* within the line tolerance of 85; 115 is another line
WordPositions == {<<2100, 8500>>, <<6600, 8650>>, <<12000, 8500>>, <<2100, 11500>>}

WordSet ==
    {[text |-> t, xMin |-> pos[1], yMin |-> pos[2], xMax |-> pos[1] + 4000,
      yMax |-> pos[2] + 1000] :
        t \in {<<"N", "o", "m">>, DotLeaderText, NineDotsText},
        pos \in WordPositions}

\* the boxes extractBoxes found on the page
StageBoxLists ==
    {<<>>,
     <<Cell(2100, 10000)>>,
     <<Cell(2100, 10000), Cell(2992, 10000)>>,
     <<Checkbox(6662, 10000), Cell(2100, 10000)>>}

StagesInit ==
    /\ stage = "input"
    /\ \E bs \in StageBoxLists : args = [words |-> <<>>, boxes |-> bs]
    /\ result = <<>>
    /\ GroupIdle
    /\ NameIdle
    /\ ConvertIdle

\* the next word element of the page
AddWord ==
    /\ stage = "input"
    /\ Len(args.words) < MaxWords
    /\ \E w \in WordSet : args' = [args EXCEPT !.words = Append(@, w)]
    /\ UNCHANGED <<stage, result, groupVars, nameVars, convertVars>>

\* labels = extractLabels(bboxHtml).get(1)
StageExtractLabels ==
    /\ stage = "input"
    /\ stage' = "labels"
    /\ result' = [labels |-> extractLabels(<<args.words>>)[1]]
    /\ UNCHANGED <<args, groupVars, nameVars, convertVars>>

\* extractDotLineFields(labels, 1, PAGE_HEIGHT, new Set())
StageDotLines ==
    /\ stage = "labels"
    /\ stage' = "dots"
    /\ result' = [labels |-> result.labels,
                  dot |-> extractDotLineFields(result.labels, 1, PAGE_HEIGHT, {})]
    /\ UNCHANGED <<args, groupVars, nameVars, convertVars>>

\* groupBoxesIntoFields(boxes, 1)
StageGroup ==
    /\ stage = "dots"
    /\ stage' = "groups"
    /\ result' = [labels |-> result.labels,
                  dot |-> result.dot,
                  groups |-> groupBoxesIntoFields(args.boxes, 1)]
    /\ UNCHANGED <<args, groupVars, nameVars, convertVars>>

\* mapLabelsToFields(groups, remainingLabels, transform, 1, PAGE_HEIGHT)
StageMap ==
    /\ stage = "groups"
    /\ stage' = "fields"
    /\ LET remaining == RemainingLabels(result.labels, result.dot.consumedLabelIndices)
       IN  result' = [labels |-> result.labels,
                      dot |-> result.dot,
                      groups |-> result.groups,
                      remaining |-> remaining,
                      fields |-> mapLabelsToFields(result.groups, remaining, Identity,
                                                   1, PAGE_HEIGHT)]
    /\ UNCHANGED <<args, groupVars, nameVars, convertVars>>

StagesNext == AddWord \/ StageExtractLabels \/ StageDotLines \/ StageGroup \/ StageMap

SpecStages == StagesInit /\ [][StagesNext]_vars

\* a text of periods, ellipses and whitespace with at least 10 periods
IsDotLeader(text) ==
    /\ text # <<>>
    /\ \A c \in Range(text) : c \in {".", "ELLIPSIS", " ", "\t"}
    /\ Cardinality({k \in 1..Len(text) : text[k] = "."}) >= 10

\* C20: every stage returns an empty collection on empty input: extractLabels
\* gives no label for a page without words, extractDotLineFields gives no
\* field and an empty consumed set when there is no label or no dot-leader
\* label, groupBoxesIntoFields gives no group for no box, and
\* mapLabelsToFields gives no field for no group.
C20_EmptyInEmptyOut ==
    /\ (stage \in {"labels", "dots", "groups", "fields"} /\ args.words = <<>>) =>
          result.labels = <<>>
    /\ (/\ stage \in {"dots", "groups", "fields"}
        /\ \A i \in 1..Len(result.labels) : ~IsDotLeader(result.labels[i].text)) =>
          (result.dot.fields = <<>> /\ result.dot.consumedLabelIndices = {})
    /\ (stage \in {"groups", "fields"} /\ args.boxes = <<>>) => result.groups = <<>>
    /\ (stage = "fields" /\ result.groups = <<>>) => result.fields = <<>>

C20_Witness ==
    /\ stage = "fields"
    /\ args.boxes = <<>>
    /\ Len(result.labels) = 2
    /\ \E i \in 1..2 : result.labels[i].text = NineDotsText
    /\ result.dot.fields = <<>>
    /\ result.dot.consumedLabelIndices = {}
    /\ result.groups = <<>>
    /\ result.fields = <<>>

(***************************************************************************)
(* Further properties of the Row/Field Grouper                             *)
(***************************************************************************)
\* the positions of the X order of a row at which splitByXGap starts a group
GroupStarts(groups) ==
    {1 + Len(Flatten([g \in 1..(k - 1) |-> groups[g].boxes])) : k \in 1..Len(groups)}

C22_SortedTopDownLeftRight ==
    stage = "grouped" =>
        \A i, j \in 1..Len(fieldGroups) :
            i < j =>
                LET p == fieldGroups[i].boxes[1]
                    q == fieldGroups[j].boxes[1]
                IN  /\ p.y - q.y <= U(2)
                    /\ Abs(p.y - q.y) <= U(2) => p.x <= q.x

(***************************************************************************)
(* Specification of the two caption searches on one geometry: a label      *)
(* list, then findTextLabelAbove for a dot group with top edge GroupTopY   *)
(* and X span GroupXMin..GroupXMax, and findBestLabel for a field whose    *)
(* top edge and X span are the same                                        *)
(***************************************************************************)
\* the top edge of the group, 200 units down the page, and its X span
GroupTopY == U(200)

GroupXMin == U(100)

GroupXMax == U(200)

\* bottom edges 0.01 below the top edge of the group, on it, and 20, 26,
\* 30 and 30.01 above it
SearchLabelYMaxs == {20001, 20000, 18000, 17400, 17000, 16999}

\* X spans: over the group; left of it with a gap of 49.99; left of it with
\* a gap of exactly 50; right of it
SearchLabelSpans == {<<12000, 15000>>, <<3000, 5001>>, <<3000, 5000>>, <<20000, 22000>>}

SearchLabelSet ==
    {[text |-> CaptionText, xMin |-> s[1], yMin |-> y - 1000, xMax |-> s[2],
      yMax |-> y, page |-> 1] : s \in SearchLabelSpans, y \in SearchLabelYMaxs}

\* the field of the matcher that has the geometry of the dot group
SearchFieldRect ==
    [x |-> GroupXMin, y |-> PAGE_HEIGHT - GroupTopY - 1091,
     width |-> GroupXMax - GroupXMin, height |-> 1091]

SearchInit ==
    /\ stage = "input"
    /\ args = [labels |-> <<>>, consumed |-> {}]
    /\ result = <<>>
    /\ GroupIdle
    /\ NameIdle
    /\ ConvertIdle

\* the caller builds the label list of the page
AddSearchLabel ==
    /\ stage = "input"
    /\ Len(args.labels) < MaxSearchLabels
    /\ \E l \in SearchLabelSet : args' = [args EXCEPT !.labels = Append(@, l)]
    /\ UNCHANGED <<stage, result, groupVars, nameVars, convertVars>>

\* findTextLabelAbove(labels, groupTopY, groupXMin, groupXMax, consumed), and
\* findBestLabel(fieldRect, labels.filter(not consumed), pageHeight)
CallSearches ==
    /\ stage = "input"
    /\ stage' = "returned"
    /\ \E consumed \in SUBSET (1..Len(args.labels)) :
          /\ args' = [args EXCEPT !.consumed = consumed]
          /\ result' =
                 [dot |-> findTextLabelAbove(args.labels, GroupTopY, GroupXMin,
                                             GroupXMax, consumed),
                  match |-> findBestLabel(SearchFieldRect,
                                          RemainingLabels(args.labels, consumed),
                                          PAGE_HEIGHT)]
    /\ UNCHANGED <<groupVars, nameVars, convertVars>>

SearchNext == AddSearchLabel \/ CallSearches

SpecSearch == SearchInit /\ [][SearchNext]_vars

\* bottom edge of the label to top edge of the group
CaptionDistance(l) == GroupTopY - l.yMax

CaptionOverlaps(l) == l.xMin < GroupXMax /\ l.xMax > GroupXMin

\* the label may be taken as caption when the search reaches up to maxDistance
CaptionEligible(l, maxDistance) ==
    /\ CaptionDistance(l) >= 0
    /\ CaptionDistance(l) <= maxDistance
    /\ \/ CaptionOverlaps(l)
       \/ (l.xMax <= GroupXMin /\ GroupXMin - l.xMax < U(50))

CaptionScore(l) == CaptionDistance(l) + (IF CaptionOverlaps(l) THEN 0 ELSE U(20))

\* the caption the rule selects among the labels: none, or the first of the
\* eligible labels of minimum score
SelectedCaption(labels, maxDistance) ==
    LET eligible == {i \in 1..Len(labels) : CaptionEligible(labels[i], maxDistance)}
        best == {i \in eligible :
                    \A j \in eligible : CaptionScore(labels[i]) <= CaptionScore(labels[j])}
    IN  IF eligible = {} THEN <<>>
        ELSE <<labels[CHOOSE i \in best : \A j \in best : i <= j]>>

\* C23: the caption chosen for a dot-leader group is, among the non-consumed
\* labels that lie above the group within 30 units and that overlap the
\* group's X span or end to its left with a gap under 50 units, one with the
\* minimum score (vertical distance, plus 20 without overlap); among labels
\* of equal minimum score the first in label order; none when no label is
\* eligible.
C23_CaptionIsFirstMinimum ==
    stage = "returned" =>
        result.dot = SelectedCaption(RemainingLabels(args.labels, args.consumed), U(30))

\* a label over the group 20 above it and a label left of it on its top edge
\* have the score 20: the first of the two is the caption
C23_Witness ==
    /\ stage = "returned"
    /\ Len(args.labels) = 2
    /\ args.consumed = {}
    /\ CaptionScore(args.labels[1]) = U(20)
    /\ CaptionScore(args.labels[2]) = U(20)
    /\ CaptionOverlaps(args.labels[1]) # CaptionOverlaps(args.labels[2])
    /\ CaptionEligible(args.labels[1], U(30))
    /\ CaptionEligible(args.labels[2], U(30))
    /\ result.dot = <<args.labels[1]>>

\* C24 as stated: for the same relative geometry and the same label order the
\* matcher's best-label search and the dot-leader caption search accept the
\* same labels and select the same label.
C24_Original ==
    stage = "returned" => result.match = result.dot

\* C24 amended: the matcher's best-label search applies the overlap /
\* left-proximity condition, the score and the tie-break of the dot-leader
\* caption search, but reaches up only 25 units where the caption search
\* reaches 30: it selects the first label of minimum score among the labels
\* at most 25 units above the target, and the two searches select the same
\* label whenever no label the caption search accepts is more than 25 units
\* above the target.
C24_SameRuleShorterReach ==
    stage = "returned" =>
        LET remaining == RemainingLabels(args.labels, args.consumed)
        IN  /\ result.match = SelectedCaption(remaining, U(25))
            /\ (\A i \in 1..Len(remaining) :
                    CaptionEligible(remaining[i], U(30))
                        => CaptionDistance(remaining[i]) <= U(25))
                   => result.match = result.dot

\* a label over the target and 26 units above it is the caption of the dot
\* group and is no label of the field
C24_Witness ==
    /\ stage = "returned"
    /\ Len(args.labels) = 1
    /\ args.consumed = {}
    /\ CaptionDistance(args.labels[1]) = U(26)
    /\ CaptionOverlaps(args.labels[1])
    /\ result.dot = <<args.labels[1]>>
    /\ result.match = <<>>

(***************************************************************************)
(* Specification of the Box Extractor on paths of every colour, size and   *)
(* stroke: a page whose paths all stand under the root, then one call of   *)
(* extractBoxes                                                            *)
(***************************************************************************)
\* strokes: white, at the white threshold, dark, at the dark threshold,
\* coloured, and a stroke that is no rgb(...%) colour
KindStrokes ==
    {White, <<<<95, 95, 95>>>>, Dark, <<<<20, 19, 19>>>>, <<<<50, 0, 0>>>>, <<>>}

\* stroke widths 0.9, 0.89 and 0 (the attribute is absent)
KindStrokeWidths == {90, 89, 0}

\* fills: at the white threshold, one channel under it, no rgb(...%) colour
KindFills == {<<<<95, 95, 95>>>>, <<<<100, 94, 100>>>>, <<>>}

\* widths and heights at and beyond the limits 3 and 50
KindSizes ==
    {<<300, 300>>, <<299, 1000>>, <<1000, 299>>, <<5000, 5000>>, <<5001, 1000>>,
     <<1000, 5001>>}

\* a cell and a checkbox of the forms
GoodStrokes == {<<White, 100>>, <<Dark, 50>>}

\* M x y C ...: a path with a curve
CurveCommands ==
    <<[cmd |-> "M", x |-> 1000, y |-> 1000], [cmd |-> "C", x |-> 0, y |-> 0]>>

KindPathSet ==
    {PathElement(RectCommands(6144, 49458, 892, 1091), st, sw, <<PageMatrix>>, <<Root>>) :
        st \in KindStrokes, sw \in KindStrokeWidths}
    \cup
    {PathElement(RectCommands(6144, 49458, sz[1], sz[2]), g[1], g[2], <<PageMatrix>>,
                 <<Root>>) : sz \in KindSizes, g \in GoodStrokes}
    \cup
    {[PathElement(RectCommands(6144, 49458, 892, 1091), g[1], g[2], <<PageMatrix>>,
                  <<Root>>) EXCEPT !.fill = f] : f \in KindFills, g \in GoodStrokes}
    \cup
    {PathElement(d, g[1], g[2], t, <<Root>>) :
        d \in {<<>>, CurveCommands}, g \in GoodStrokes, t \in {<<PageMatrix>>}}
    \cup
    {PathElement(RectCommands(6144, 49458, 892, 1091), g[1], g[2], <<>>, <<Root>>) :
        g \in GoodStrokes}

KindInit ==
    /\ stage = "input"
    /\ args = [svg |-> [viewBox |-> <<JoinWords(<<"zero", "zero", "w595", "w842">>)>>,
                        height |-> <<>>,
                        uses |-> <<>>,
                        paths |-> <<>>]]
    /\ result = <<>>
    /\ GroupIdle
    /\ NameIdle
    /\ ConvertIdle

\* the next path element of the document
AddKindPath ==
    /\ stage = "input"
    /\ Len(args.svg.paths) < MaxKindPaths
    /\ \E path \in KindPathSet : args' = [args EXCEPT !.svg.paths = Append(@, path)]
    /\ UNCHANGED <<stage, result, groupVars, nameVars, convertVars>>

\* extractBoxes(svgXml)
CallExtractKinds ==
    /\ stage = "input"
    /\ stage' = "returned"
    /\ result' = extractBoxes(args.svg)
    /\ UNCHANGED <<args, groupVars, nameVars, convertVars>>

KindNext == AddKindPath \/ CallExtractKinds

SpecKinds == KindInit /\ [][KindNext]_vars

\* all three channels of the colour are at least / under the percentage
ChannelsAtLeast(color, percent) == color # <<>> /\ \A i \in 1..3 : color[1][i] >= percent

ChannelsUnder(color, percent) == color # <<>> /\ \A i \in 1..3 : color[1][i] < percent

\* the corner points of the path
Corners(path) == {c \in Range(path.d) : c.cmd \in {"M", "L"}}

\* the path is made of lines only and has four corners
IsOutline(path) ==
    /\ path.d # <<>>
    /\ \A c \in Range(path.d) : c.cmd \in {"M", "L", "Z"}
    /\ Cardinality(Corners(path)) = 4

\* the bounding box of the corners
SpanX(path) ==
    LET xs == {c.x : c \in Corners(path)}
    IN  (CHOOSE m \in xs : \A n \in xs : m >= n) - (CHOOSE m \in xs : \A n \in xs : m <= n)

SpanY(path) ==
    LET ys == {c.y : c \in Corners(path)}
    IN  (CHOOSE m \in ys : \A n \in ys : m >= n) - (CHOOSE m \in ys : \A n \in ys : m <= n)

\* the kind the stroke gives the path: cell, checkbox, or none
KindOf(path) ==
    IF ChannelsAtLeast(path.stroke, 95) /\ path.strokeWidth >= 90 THEN <<"cell">>
    ELSE IF ChannelsUnder(path.stroke, 20) THEN <<"checkbox">>
    ELSE <<>>

IsInputBox(path) ==
    /\ ChannelsAtLeast(path.fill, 95)
    /\ IsOutline(path)
    /\ SpanX(path) \in 300..5000
    /\ SpanY(path) \in 300..5000
    /\ path.transform # <<>>
    /\ KindOf(path) # <<>>

\* C25: a path is accepted by extractBoxes as an input box only if its fill
\* is near-white (all channels >= 95%), its bounding box has width and height
\* within [3, 50] and its transform parses; its kind is cell when the stroke
\* is near-white with stroke width >= 0.9, checkbox when the stroke is dark
\* (all channels < 20%) at any stroke width, and in every other case the path
\* is no input box; every rectangle of the result has width and height
\* within [3, 50].
C25_AcceptedPathsAndKinds ==
    stage = "returned" =>
        LET paths == args.svg.paths
            inputBoxes == SelectSeq(paths, IsInputBox)
        IN  /\ Len(result.boxes) = Len(inputBoxes)
            /\ \A k \in 1..Len(inputBoxes) :
                  /\ result.boxes[k].type = KindOf(inputBoxes[k])[1]
                  /\ result.boxes[k].width = SpanX(inputBoxes[k])
                  /\ result.boxes[k].height = SpanY(inputBoxes[k])
            /\ \A k \in 1..Len(result.boxes) :
                  /\ result.boxes[k].width \in 300..5000
                  /\ result.boxes[k].height \in 300..5000

\* a path with a white stroke 0.89 wide is no box; a path 50 by 50 with a
\* dark stroke is a checkbox
C25_Witness ==
    /\ stage = "returned"
    /\ Len(args.svg.paths) = 2
    /\ args.svg.paths[1].stroke = White
    /\ args.svg.paths[1].strokeWidth = 89
    /\ args.svg.paths[2].stroke = Dark
    /\ IsOutline(args.svg.paths[2])
    /\ SpanX(args.svg.paths[2]) = 5000
    /\ Len(result.boxes) = 1
    /\ result.boxes[1].type = "checkbox"
    /\ result.boxes[1].width = 5000

(***************************************************************************)
(* Specification of the Box Extractor on nested documents: the reuse       *)
(* references under the page root, then cells under groups or inside the   *)
(* definitions block, then one call of extractBoxes.  A reuse reference    *)
(* carries the id it refers to and a cell inside the definitions block the *)
(* id of its definition; the code reads neither.                           *)
(***************************************************************************)
\* translate(1, 2)
ShiftMatrix == [UnitMatrix EXCEPT !.e = ONE, !.f = 2 * ONE]

\* matrix(2, 0, 0, 2, 0, 0)
DoubleMatrix == [UnitMatrix EXCEPT !.a = 2 * ONE, !.d = 2 * ONE]

Group(transform) == [tag |-> "g", transform |-> transform]

Defs == [tag |-> "defs", transform |-> <<>>]

\* the ancestors of a cell, from its parent up to the root, and the id of
\* the definition it belongs to: directly under the root; in one group; in
\* two groups; in a group without transform in a group; in a group of a
\* definition; directly in another definition
NestingSet ==
    {[ancestors |-> <<Root>>, id |-> <<>>],
     [ancestors |-> <<Group(<<TurnedMatrix>>), Root>>, id |-> <<>>],
     [ancestors |-> <<Group(<<ShiftMatrix>>), Group(<<TurnedMatrix>>), Root>>,
      id |-> <<>>],
     [ancestors |-> <<Group(<<>>), Group(<<DoubleMatrix>>), Root>>, id |-> <<>>],
     [ancestors |-> <<Group(<<TurnedMatrix>>), Defs, Root>>, id |-> <<"form1">>],
     [ancestors |-> <<Defs, Root>>, id |-> <<"form2">>]}

\* a cell of the forms with the nesting n and the transform attribute own
NestedCell(n, own) ==
    [d |-> RectCommands(6144, 49458, 892, 1091), fill |-> White, stroke |-> White,
     strokeWidth |-> 100, transform |-> <<own>>, ancestors |-> n.ancestors,
     id |-> n.id]

NestedPathSet == {NestedCell(n, own) : n \in NestingSet, own \in {UnitMatrix, ShiftMatrix}}

\* the reuse references: with or without a transform attribute
UseSet ==
    [transform : {<<>>, <<DoubleMatrix>>, <<TurnedMatrix>>}, href : {"form1", "form2"}]

ReuseInit ==
    /\ stage = "uses"
    /\ args = [svg |-> [viewBox |-> <<JoinWords(<<"zero", "zero", "w595", "w842">>)>>,
                        height |-> <<>>,
                        uses |-> <<>>,
                        paths |-> <<>>],
               hrefs |-> <<>>]
    /\ result = <<>>
    /\ GroupIdle
    /\ NameIdle
    /\ ConvertIdle

\* the next reuse reference under the page root
AddUse ==
    /\ stage = "uses"
    /\ Len(args.svg.uses) < MaxUses
    /\ \E u \in UseSet :
          args' = [args EXCEPT !.svg.uses = Append(@, u.transform),
                               !.hrefs = Append(@, u.href)]
    /\ UNCHANGED <<stage, result, groupVars, nameVars, convertVars>>

\* the next path element of the document
AddNestedPath ==
    /\ stage \in {"uses", "paths"}
    /\ stage' = "paths"
    /\ Len(args.svg.paths) < MaxNestedPaths
    /\ \E path \in NestedPathSet : args' = [args EXCEPT !.svg.paths = Append(@, path)]
    /\ UNCHANGED <<result, groupVars, nameVars, convertVars>>

\* extractBoxes(svgXml)
CallExtractNested ==
    /\ stage \in {"uses", "paths"}
    /\ stage' = "returned"
    /\ result' = extractBoxes(args.svg)
    /\ UNCHANGED <<args, groupVars, nameVars, convertVars>>

ReuseNext == AddUse \/ AddNestedPath \/ CallExtractNested

SpecReuse == ReuseInit /\ [][ReuseNext]_vars

\* the matrix under which a point goes through inner first and outer last
Then(inner, outer) == composeTransforms(outer, inner)

\* the transform of the path applied first, then those of its groups from the
\* innermost to the outermost one
RECURSIVE ThroughGroups(_, _)
ThroughGroups(matrix, ancestors) ==
    IF ancestors = <<>> \/ Head(ancestors).tag # "g" THEN matrix
    ELSE ThroughGroups(IF Head(ancestors).transform = <<>> THEN matrix
                       ELSE Then(matrix, Head(ancestors).transform[1]),
                       Tail(ancestors))

\* the reuse references under the root that refer to the definition of path
ReferencesTo(path) ==
    {k \in 1..Len(args.hrefs) : path.id # <<>> /\ args.hrefs[k] = path.id[1]}

\* the transform of the first reuse reference under the root that carries
\* one, <<>> where none does
FirstTransformedUse ==
    LET carrying == {k \in 1..Len(args.svg.uses) : args.svg.uses[k] # <<>>}
    IN  IF carrying = {} THEN <<>>
        ELSE args.svg.uses[CHOOSE k \in carrying : \A other \in carrying : k <= other]

\* C26 as stated: for an accepted path outside any definitions block the
\* effective transform is the path's own transform composed with its ancestor
\* group transforms up to but excluding the page root, own transform applied
\* first and outermost ancestor applied last; for a path inside a definitions
\* block the net transform is the transform of the outermost reuse reference.
C26_Original ==
    (stage = "returned" /\ args.svg.paths # <<>>) =>
        LET path == args.svg.paths[1]
            use == FirstTransformedUse
        IN  /\ path.id = <<>> =>
                  result.transform =
                      <<ThroughGroups(path.transform[1], path.ancestors)>>
            /\ (path.id # <<>> /\ use # <<>>) => result.transform = use

\* C26: for an accepted path outside any definitions block the effective
\* transform is the path's own transform, then its ancestor group transforms
\* from the innermost to the outermost, the page root excluded; for a path
\* inside a definitions block the group transforms inside the block are
\* ignored and the effective transform is the path's own transform, then the
\* transform of the first reuse reference under the page root that carries
\* one, whichever definition that reference refers to; where no reference
\* carries one it is the path's own transform alone.
C26_OwnThenFirstTransformedUse ==
    (stage = "returned" /\ args.svg.paths # <<>>) =>
        LET path == args.svg.paths[1]
            own == path.transform[1]
            use == FirstTransformedUse
        IN  /\ path.id = <<>> =>
                  result.transform = <<ThroughGroups(own, path.ancestors)>>
            /\ path.id # <<>> =>
                  result.transform = <<IF use = <<>> THEN own ELSE Then(own, use[1])>>

\* a shifted cell in a turned group of the definition form1; the reference to
\* form1 carries no transform, a later reference to form2 doubles: the cell
\* is shifted, then doubled, and not turned
C26_Witness ==
    /\ stage = "returned"
    /\ args.svg.paths = <<NestedCell([ancestors |-> <<Group(<<TurnedMatrix>>), Defs, Root>>,
                                      id |-> <<"form1">>], ShiftMatrix)>>
    /\ args.svg.uses = <<<<>>, <<DoubleMatrix>>>>
    /\ args.hrefs = <<"form1", "form2">>
    /\ ReferencesTo(args.svg.paths[1]) = {1}
    /\ result.transform = <<Then(ShiftMatrix, DoubleMatrix)>>
    /\ result.transform # <<DoubleMatrix>>
    /\ Len(result.boxes) = 1

(***************************************************************************)
(* Specification of the Label Assembler alone: the words of the page, in   *)
(* document order, then one call of assembleLabels.  The lines the call    *)
(* builds are kept next to the labels it returns.                          *)
(***************************************************************************)
\* words 40 wide and 10 high: after the word at 21 the word at 71 leaves a
\* gap of exactly 10 and after that one the word at 121.01 a gap of 10.01;
\* the Y values 100, 102 and 104 are 2 units apart each
LineWordSet ==
    {[text |-> pos[1], xMin |-> pos[2], yMin |-> y, xMax |-> pos[2] + 4000,
      yMax |-> y + 1000] :
        pos \in {<<<<"N", "o", "m">>, 2100>>, <<<<"d", "e">>, 7100>>,
                 <<<<"n", "e", "e">>, 12101>>},
        y \in {10000, 10200, 10400}}

LabelsInit ==
    /\ stage = "words"
    /\ args = [words |-> <<>>]
    /\ result = <<>>
    /\ GroupIdle
    /\ NameIdle
    /\ ConvertIdle

\* the next word element of the page
AddLineWord ==
    /\ stage = "words"
    /\ Len(args.words) < MaxLineWords
    /\ \E w \in LineWordSet : args' = [args EXCEPT !.words = Append(@, w)]
    /\ UNCHANGED <<stage, result, groupVars, nameVars, convertVars>>

\* the lines of assembleLabels, each as the inner sort leaves it
SortedLines(words) ==
    IF Len(words) = 0 THEN <<>>
    ELSE LET sorted == ArraySort(words, "word")
             lines == LinesFrom(sorted, 2, <<<<sorted[1]>>>>)
         IN  [k \in 1..Len(lines) |-> ArraySort(lines[k], "xMin")]

\* assembleLabels(words, 1)
CallAssembleLabels ==
    /\ stage = "words"
    /\ stage' = "returned"
    /\ result' = [sorted |-> ArraySort(args.words, "word"),
                  lines |-> IF args.words = <<>> THEN <<>>
                            ELSE LinesFrom(ArraySort(args.words, "word"), 2,
                                           <<<<ArraySort(args.words, "word")[1]>>>>),
                  sortedLines |-> SortedLines(args.words),
                  labels |-> assembleLabels(args.words, 1)]
    /\ UNCHANGED <<args, groupVars, nameVars, convertVars>>

LabelsNext == AddLineWord \/ CallAssembleLabels

SpecLabels == LabelsInit /\ [][LabelsNext]_vars

\* the positions of the sorted word list at which a line starts
LineStarts(lines) ==
    {1 + Len(Flatten([g \in 1..(k - 1) |-> lines[g]])) : k \in 1..Len(lines)}

\* the first word of the line that holds position i of the sorted word list
AnchorOf(sorted, lines, i) ==
    sorted[CHOOSE a \in LineStarts(lines) :
               a <= i /\ \A b \in LineStarts(lines) : b <= i => b <= a]

\* C27: when the words are grouped into lines, a word joins the current line
\* if and only if its Y is within 2 units of the Y of the line's first word;
\* hence all words of one line, and of one label, have Y within 2 units of
\* that line's first word.
C27_JoinsIffNearAnchor ==
    stage = "returned" =>
        /\ Flatten(result.lines) = result.sorted
        /\ \A i \in 2..Len(result.sorted) :
              i \notin LineStarts(result.lines)
                  <=> Abs(result.sorted[i].yMin
                          - AnchorOf(result.sorted, result.lines, i - 1).yMin) <= U(2)
        /\ \A k \in 1..Len(result.lines) : \A i \in 1..Len(result.lines[k]) :
              Abs(result.lines[k][i].yMin - result.lines[k][1].yMin) <= U(2)

\* the positions of a line in X order at which a label starts
LabelStarts(sortedLine) ==
    {1} \cup {i \in 2..Len(sortedLine) :
                 sortedLine[i].xMin - sortedLine[i - 1].xMax > U(10)}

\* the words of the label that starts at position a of the line
SpanAt(sortedLine, a) ==
    LET later == {b \in LabelStarts(sortedLine) : b > a}
    IN  SubSeq(sortedLine, a,
               IF later = {} THEN Len(sortedLine)
               ELSE (CHOOSE b \in later : \A c \in later : b <= c) - 1)

\* the texts put one after the other with one space between two of them
RECURSIVE SpaceJoined(_)
SpaceJoined(texts) ==
    IF Len(texts) = 0 THEN <<>>
    ELSE IF Len(texts) = 1 THEN texts[1]
    ELSE SpaceJoined(SubSeq(texts, 1, Len(texts) - 1)) \o <<" ">> \o texts[Len(texts)]

\* label is the union of the boxes of the words ws and reads as ws
IsLabelOf(label, ws) ==
    /\ \E i \in 1..Len(ws) : label.xMin = ws[i].xMin
    /\ \E i \in 1..Len(ws) : label.yMin = ws[i].yMin
    /\ \E i \in 1..Len(ws) : label.xMax = ws[i].xMax
    /\ \E i \in 1..Len(ws) : label.yMax = ws[i].yMax
    /\ \A i \in 1..Len(ws) :
          /\ label.xMin <= ws[i].xMin
          /\ label.yMin <= ws[i].yMin
          /\ label.xMax >= ws[i].xMax
          /\ label.yMax >= ws[i].yMax
    /\ label.text = SpaceJoined([i \in 1..Len(ws) |-> ws[i].text])

\* the number of labels of the lines before line k
LabelsBefore(sortedLines, k) ==
    Cardinality(UNION {{<<j, b>> : b \in LabelStarts(sortedLines[j])} : j \in 1..(k - 1)})

\* C28: within one line sorted by X, a word is joined to the current label if
\* and only if its left edge minus the previous word's right edge is at most
\* 10 units, otherwise it starts a new label on the same line; every label's
\* bounding box is the union of its words' boxes and its text is its words in
\* X order joined by single spaces.  The labels come line after line, and
\* within a line from left to right.
C28_LabelsOfLine ==
    stage = "returned" =>
        LET sortedLines == result.sortedLines
        IN  /\ \A k \in 1..Len(sortedLines) : \A i \in 2..Len(sortedLines[k]) :
                  sortedLines[k][i - 1].xMin <= sortedLines[k][i].xMin
            /\ Len(result.labels) = LabelsBefore(sortedLines, Len(sortedLines) + 1)
            /\ \A k \in 1..Len(sortedLines) : \A a \in LabelStarts(sortedLines[k]) :
                  IsLabelOf(result.labels[LabelsBefore(sortedLines, k)
                                + Cardinality({b \in LabelStarts(sortedLines[k]) : b <= a})],
                            SpanAt(sortedLines[k], a))

\* one line of three words, given from right to left: the gap of exactly 10
\* joins "Nom" and "de", whose box reaches from Y 100 to Y 112, and the gap
\* of 10.01 puts the third word into a label of its own
C28_Witness ==
    /\ stage = "returned"
    /\ Len(args.words) = 3
    /\ args.words[1].xMin = 12101 /\ args.words[1].yMin = 10000
    /\ args.words[2].xMin = 7100 /\ args.words[2].yMin = 10200
    /\ args.words[3].xMin = 2100 /\ args.words[3].yMin = 10000
    /\ Len(result.lines) = 1
    /\ result.labels =
           <<[text |-> <<"N", "o", "m", " ", "d", "e">>, xMin |-> 2100, yMin |-> 10000,
              xMax |-> 11100, yMax |-> 11200, page |-> 1],
             [text |-> <<"n", "e", "e">>, xMin |-> 12101, yMin |-> 10000,
              xMax |-> 16101, yMax |-> 11000, page |-> 1]>>

(***************************************************************************)
(* Specification of the values the body of the page loop of convert owns:  *)
(* the box list, the label list and the used-names set it hands to the     *)
(* stages, and the remaining labels and field groups it gets back.  args   *)
(* holds those values as each call leaves them, result what the calls      *)
(* returned.                                                               *)
(***************************************************************************)
\* Array.prototype.sort sorts the array it is called on
SortInPlace(arrays, name, cmp) == [arrays EXCEPT ![name] = ArraySort(@, cmp)]

\* boxes.sort(...): the array the sort is called on is the argument itself
ArgumentOfGroupByY == "boxes"

\* [...boxes].sort(...): the array the sort is called on is a new one
SpreadOfGroupByY == "sorted"

\* the argument of groupByY and the array it calls sorted, after its first
\* statement
ArraysOfGroupByY(bs) ==
    SortInPlace([boxes |-> bs, sorted |-> bs], SpreadOfGroupByY, "y")

OwnedBoxSet == {Cell(2100, 10000), Cell(2992, 10000), Cell(2100, 9000),
                Checkbox(6662, 10000)}

\* a caption, a dot leader 20 below it, and a dot leader further down
OwnedLabelSet ==
    {LabelAt(CaptionText, 2100, 8500, 1), LabelAt(DotLeaderText, 2100, 10500, 1),
     LabelAt(DotLeaderText, 2100, 30000, 1)}

\* the keys of the fields of the pages before this one
OwnedNameSets == {{}, {generateFieldName(CaptionText, "cell", 1)}}

FieldKeys(fields) == {fields[i].key : i \in 1..Len(fields)}

OwnershipInit ==
    /\ stage = "input"
    /\ \E names \in OwnedNameSets :
          args = [boxes |-> <<>>, labels |-> <<>>, usedNames |-> names,
                  remainingLabels |-> <<>>, fieldGroups |-> <<>>]
    /\ result = [dot |-> [fields |-> <<>>, consumedLabelIndices |-> {}],
                 fields |-> <<>>]
    /\ GroupIdle
    /\ NameIdle
    /\ ConvertIdle

\* the next box extractBoxes found
AddOwnedBox ==
    /\ stage = "input"
    /\ Len(args.boxes) < MaxOwnedBoxes
    /\ \E box \in OwnedBoxSet : args' = [args EXCEPT !.boxes = Append(@, box)]
    /\ UNCHANGED <<stage, result, groupVars, nameVars, convertVars>>

\* the next label of the page
AddOwnedLabel ==
    /\ stage = "input"
    /\ Len(args.labels) < MaxOwnedLabels
    /\ \E label \in OwnedLabelSet : args' = [args EXCEPT !.labels = Append(@, label)]
    /\ UNCHANGED <<stage, result, groupVars, nameVars, convertVars>>

\* extractDotLineFields(labels, page, pageHeight, usedNames): reads labels,
\* adds to usedNames
OwnedDotLines ==
    /\ stage = "input"
    /\ stage' = "dots"
    /\ LET call == extractDotLineFields(args.labels, 1, PAGE_HEIGHT, args.usedNames)
       IN  /\ result' = [result EXCEPT !.dot =
                            [fields |-> call.fields,
                             consumedLabelIndices |-> call.consumedLabelIndices]]
           /\ args' = [args EXCEPT !.usedNames = call.names]
    /\ UNCHANGED <<groupVars, nameVars, convertVars>>

\* remainingLabels = labels.filter(...): a new array
OwnedFilter ==
    /\ stage = "dots"
    /\ stage' = "filtered"
    /\ args' = [args EXCEPT !.remainingLabels =
                   RemainingLabels(args.labels, result.dot.consumedLabelIndices)]
    /\ UNCHANGED <<result, groupVars, nameVars, convertVars>>

\* fieldGroups = groupBoxesIntoFields(boxes, page), then the caller adds the
\* keys of the dot fields to usedNames
OwnedGroup ==
    /\ stage = "filtered"
    /\ args.boxes # <<>>
    /\ stage' = "groups"
    /\ args' = [args EXCEPT !.boxes = ArraysOfGroupByY(args.boxes).boxes,
                            !.fieldGroups = groupBoxesIntoFields(args.boxes, 1),
                            !.usedNames = @ \cup FieldKeys(result.dot.fields)]
    /\ UNCHANGED <<result, groupVars, nameVars, convertVars>>

\* mapLabelsToFields(fieldGroups, remainingLabels, transform, page,
\* pageHeight, usedNames): reads its arguments, the names go to a set of its
\* own
OwnedMap ==
    /\ stage = "groups"
    /\ stage' = "fields"
    /\ result' = [result EXCEPT !.fields =
                     mapLabelsToFields(args.fieldGroups, args.remainingLabels, Identity,
                                       1, PAGE_HEIGHT)]
    /\ UNCHANGED <<args, groupVars, nameVars, convertVars>>

OwnershipNext ==
    AddOwnedBox \/ AddOwnedLabel \/ OwnedDotLines \/ OwnedFilter \/ OwnedGroup \/ OwnedMap

SpecOwnership == OwnershipInit /\ [][OwnershipNext]_vars

\* the list without the elements at the indices in consumed, in its order
IsFilteredCopy(kept, list, consumed) ==
    /\ Len(kept) = Cardinality((1..Len(list)) \ consumed)
    /\ \A i \in (1..Len(list)) \ consumed :
          kept[Cardinality({j \in 1..i : j \notin consumed})] = list[i]

\* C29: no stage mutates a value it received from an earlier stage:
\* groupBoxesIntoFields leaves the input box list (order and contents)
\* unchanged, extractDotLineFields and mapLabelsToFields leave the label list
\* and the field groups unchanged, and consumed labels are removed by
\* filtering into a new list; the only caller-owned value a stage changes is
\* the used-names set, to which extractDotLineFields adds exactly the keys of
\* the fields it returns.
C29_StagesLeaveInputsAlone ==
    [][stage' \in {"dots", "filtered", "groups", "fields"} =>
          /\ args'.boxes = args.boxes
          /\ args'.labels = args.labels
          /\ stage' = "dots" =>
                args'.usedNames = args.usedNames \cup FieldKeys(result'.dot.fields)
          /\ stage' # "dots" => args'.usedNames = args.usedNames
          /\ stage' = "filtered" =>
                IsFilteredCopy(args'.remainingLabels, args.labels,
                               result.dot.consumedLabelIndices)
          /\ stage' \in {"groups", "fields"} =>
                args'.remainingLabels = args.remainingLabels
          /\ stage' = "fields" => args'.fieldGroups = args.fieldGroups]_vars

\* a page whose boxes come lower one first and whose labels are a caption and
\* its dot leader, after a page that used the caption's name: all four
\* stages have run, the box list is still in the order given, the dot
\* leader is gone from the remaining labels only, and the used-names set
\* grew by the key of the dot field
C29_Witness ==
    /\ stage = "fields"
    /\ args.boxes = <<Cell(2100, 10000), Cell(2100, 9000)>>
    /\ args.fieldGroups # <<>>
    /\ args.fieldGroups[1].boxes = <<Cell(2100, 9000)>>
    /\ args.labels = <<LabelAt(CaptionText, 2100, 8500, 1),
                       LabelAt(DotLeaderText, 2100, 10500, 1)>>
    /\ args.remainingLabels = <<LabelAt(CaptionText, 2100, 8500, 1)>>
    /\ Len(result.dot.fields) = 1
    /\ Cardinality(args.usedNames) = 2
    /\ args.usedNames = (UNION OwnedNameSets) \cup {result.dot.fields[1].key}
    /\ result.dot.fields[1].key \notin (UNION OwnedNameSets)
    /\ Len(result.fields) = 2

\* how often the box occurs in the list
Occurrences(box, list) == Cardinality({i \in 1..Len(list) : list[i] = box})

RECURSIVE SumOfBoxCounts(_)
SumOfBoxCounts(groups) ==
    IF groups = <<>> THEN 0 ELSE Head(groups).boxCount + SumOfBoxCounts(Tail(groups))

\* C30: for every list of boxes, the field groups returned by
\* groupBoxesIntoFields partition the input: every input box appears in
\* exactly one group (as often in the groups together as in the input), no
\* group is empty, and each group's boxCount equals the number of boxes it
\* holds, so the boxCounts sum to the number of input boxes.
C30_GroupsPartitionInput ==
    stage = "grouped" =>
        LET held == Flatten([k \in 1..Len(fieldGroups) |-> fieldGroups[k].boxes])
        IN  /\ \A box \in Range(boxes) \cup Range(held) :
                  Occurrences(box, held) = Occurrences(box, boxes)
            /\ \A k \in 1..Len(fieldGroups) :
                  /\ fieldGroups[k].boxes # <<>>
                  /\ fieldGroups[k].boxCount = Len(fieldGroups[k].boxes)
            /\ SumOfBoxCounts(fieldGroups) = Len(boxes)

\* three cells of one row given from right to left, one of them twice: the
\* two touching cells at 21 form a group of two and the cell at 66.62 a group
\* of its own
C30_Witness ==
    /\ stage = "grouped"
    /\ boxes = <<[x |-> 6662, y |-> 10000, width |-> 892, height |-> 1091,
                  type |-> "cell"],
                 [x |-> 2100, y |-> 10000, width |-> 892, height |-> 1091,
                  type |-> "cell"],
                 [x |-> 2100, y |-> 10000, width |-> 892, height |-> 1091,
                  type |-> "cell"]>>
    /\ Len(fieldGroups) = 2
    /\ fieldGroups[1].boxCount = 2
    /\ fieldGroups[1].boxes[1] = fieldGroups[1].boxes[2]
    /\ fieldGroups[2].boxCount = 1
    /\ fieldGroups[2].boxes[1].x = 6662

====
